---- MODULE Spec2Model ----
(***************************************************************************)
(* Model of condif2css: the conditional-formatting resolution pass of      *)
(* processor.process (one worksheet, one pass) and its helper              *)
(* get_offsets_for.                                                        *)
(*                                                                         *)
(* Strings the code inspects character by character (cell references) are  *)
(* sequences of one-character strings: "$A1" is <<"$", "A", "1">>.         *)
(* Python None is the record NoneVal / the string "None" where a field is  *)
(* optional.                                                               *)
(***************************************************************************)
EXTENDS Integers, Sequences, FiniteSets, TLC

\* ------------------------------------------------------------------ bounds
MaxRow == 2
MaxCol == 2
MaxRules == 2
MaxPriority == 2
MaxDelta == 2

\* ------------------------------------------------------------ cell values
\* A raw cell value: a str, a number, None, or a value of another Python
\* type (a datetime) that the pass has no token for.
StrVal(s) == [t |-> "str", v |-> s]
NumVal == [t |-> "num", v |-> "1"]
NoneVal == [t |-> "none", v |-> ""]

Grid == (1..MaxRow) \X (1..MaxCol)

\* cell.value of the cell at (row, col): a cell the worksheet does not hold
\* yet is created empty on access.
CellValue(sh, row, col) ==
    IF <<row, col>> \in DOMAIN sh THEN sh[<<row, col>>] ELSE NoneVal

\* ------------------------------------------------------- reference strings
ColLetters == <<"A", "B", "C", "D", "E", "F">>
RowDigits == <<"1", "2", "3", "4", "5", "6", "7", "8", "9">>

IsLetter(ch) == \E i \in DOMAIN ColLetters : ColLetters[i] = ch
IsDigit(ch) == \E i \in DOMAIN RowDigits : RowDigits[i] = ch
ColNum(ch) == CHOOSE i \in DOMAIN ColLetters : ColLetters[i] = ch
RowNum(ch) == CHOOSE i \in DOMAIN RowDigits : RowDigits[i] = ch

Contains(s, ch) == \E i \in DOMAIN s : s[i] = ch
StartsWith(s, ch) == Len(s) >= 1 /\ s[1] = ch
StripDollar(s) == IF StartsWith(s, "$") THEN Tail(s) ELSE s

NoCell(kind) == [kind |-> kind, row |-> 0, column |-> 0]

\* One side of a reference: [$]column?[$]row?, nothing else. col and row
\* are 0 when the side names none.
ParseRow(col, s) ==
    IF s # <<>> /\ IsDigit(Head(s))
    THEN [ok |-> Tail(s) = <<>>, col |-> col, row |-> RowNum(Head(s))]
    ELSE [ok |-> s = <<>>, col |-> col, row |-> 0]
ParseCol(s) ==
    IF s # <<>> /\ IsLetter(Head(s))
    THEN ParseRow(ColNum(Head(s)), StripDollar(Tail(s)))
    ELSE ParseRow(0, StripDollar(s))
ParseCoord(s) == ParseCol(StripDollar(s))

\* The key names a range "a:b": a tuple of cells when both sides parse.
RangeItem(a, b) ==
    IF a.ok /\ b.ok /\ (a.col + a.row + b.col + b.row > 0)
    THEN NoCell("Tuple") ELSE NoCell("Raise")
\* The key names no range: a cell, a whole column or row, or nothing valid.
CoordItem(p) ==
    IF ~p.ok \/ (p.col = 0 /\ p.row = 0) THEN NoCell("Raise")
    ELSE IF p.col = 0 \/ p.row = 0 THEN NoCell("Tuple")
    ELSE [kind |-> "Cell", row |-> p.row, column |-> p.col]
ColonAt(ref) == CHOOSE i \in DOMAIN ref : ref[i] = ":"

\* sheet[ref]: a single cell, a tuple of cells (a column, a row, a range),
\* or an exception for a key that is no coordinate or range of this sheet.
SheetGetItem(ref) ==
    IF Contains(ref, ":")
    THEN RangeItem(ParseCoord(SubSeq(ref, 1, ColonAt(ref) - 1)),
                   ParseCoord(SubSeq(ref, ColonAt(ref) + 1, Len(ref))))
    ELSE CoordItem(ParseCoord(ref))

\* ref_cell.offset(row=dr, column=dc): the cell at the shifted position;
\* a position left of column 1 or above row 1 raises.
CellOffset(cell, dr, dc) ==
    IF cell.row + dr < 1 \/ cell.column + dc < 1
    THEN NoCell("Raise")
    ELSE [kind |-> "Cell", row |-> cell.row + dr, column |-> cell.column + dc]

\* --------------------------------------------------------- get_offsets_for
\* Variants of get_offsets_for: the row rule as its docstring words it (the
\* row offset used when the coordinate contains a $); the two offsets
\* returned in the other order.
GetOffsetsFor_Docstring(cell_coord, row_offset, column_offset) ==
    IF Len(cell_coord) >= 2
    THEN LET offset_col == IF StartsWith(cell_coord, "$") THEN 0 ELSE column_offset
             inner_coord == IF StartsWith(cell_coord, "$") THEN Tail(cell_coord)
                            ELSE cell_coord
             offset_row == IF Contains(inner_coord, "$") THEN row_offset ELSE 0
         IN  <<offset_row, offset_col>>
    ELSE <<0, 0>>
GetOffsetsFor_Swapped(cell_coord, row_offset, column_offset) ==
    IF Len(cell_coord) >= 2
    THEN LET offset_col == IF StartsWith(cell_coord, "$") THEN 0 ELSE column_offset
             inner_coord == IF StartsWith(cell_coord, "$") THEN Tail(cell_coord)
                            ELSE cell_coord
             offset_row == IF ~Contains(inner_coord, "$") THEN row_offset ELSE 0
         IN  <<offset_col, offset_row>>
    ELSE <<0, 0>>

GetOffsetsFor(cell_coord, row_offset, column_offset) ==
    IF Len(cell_coord) >= 2
    THEN LET offset_col == IF StartsWith(cell_coord, "$") THEN 0 ELSE column_offset
             inner_coord == IF StartsWith(cell_coord, "$") THEN Tail(cell_coord)
                            ELSE cell_coord
             offset_row == IF ~Contains(inner_coord, "$") THEN row_offset ELSE 0
         IN  <<offset_row, offset_col>>
    ELSE <<0, 0>>

\* ------------------------------------------------------------------ tokens
\* The typed token wrapped around a raw operand value; ok = FALSE when no
\* branch of the isinstance chain assigns ref_values[ref].
ToToken(value) ==
    IF value.t = "str" THEN [ok |-> TRUE, tok |-> "String", v |-> value.v]
    ELSE IF value.t = "num" THEN [ok |-> TRUE, tok |-> "Number", v |-> value.v]
    ELSE IF value.t = "none" THEN [ok |-> TRUE, tok |-> "Empty", v |-> ""]
    ELSE [ok |-> FALSE, tok |-> "", v |-> ""]

\* ---------------------------------------------------------------- formulas
\* The text of one formula of a rule, by what the tokenizer and the
\* interpreter make of it:
\*   Eq       ref = "lit"         one operand reference
\*   EqRef    ref1 = ref2         two operand references
\*   Const    TRUE, FALSE or a string literal, no operand
\*   Raise    compiles, raises when evaluated
\*   Empty    the tokenizer yields no items
\*   NoCallable   get_interpreter yields nothing callable
FEq(ref, lit) == [kind |-> "Eq", refs |-> <<ref>>, lit |-> lit]
FEqRef(r1, r2) == [kind |-> "EqRef", refs |-> <<r1, r2>>, lit |-> ""]
FConst(lit) == [kind |-> "Const", refs |-> <<>>, lit |-> lit]

TokenizerHasItems(f) == f.kind # "Empty"
InterpreterCallable(f) == f.kind # "NoCallable"
\* curr_formula.inputs: the set of reference names of the compiled formula.
FormulaInputs(f) == {f.refs[i] : i \in DOMAIN f.refs}

BoolOutcome(b) == IF b THEN "True" ELSE "False"

\* curr_formula(ref_values): the outcomes the interpreter can produce. With
\* an operand missing from ref_values the result is the interpreter's own
\* business: any outcome.
EvalOutcomes(f, ref_values) ==
    IF f.kind = "Raise" THEN {"Raise"}
    ELSE IF f.kind = "Const"
    THEN {IF f.lit = "TRUE" THEN "True" ELSE IF f.lit = "FALSE" THEN "False" ELSE "NonBool"}
    ELSE IF ~(FormulaInputs(f) \subseteq DOMAIN ref_values)
    THEN {"True", "False", "NonBool", "Raise"}
    ELSE IF f.kind = "Eq"
    THEN LET a == ref_values[f.refs[1]]
         IN  {BoolOutcome(a.tok = "String" /\ a.v = f.lit)}
    ELSE LET a == ref_values[f.refs[1]]
             b == ref_values[f.refs[2]]
         IN  {BoolOutcome(a.tok = b.tok /\ a.v = b.v)}

\* The interpreter is a function of the formula and of ref_values: a call
\* with an operand missing gives what the same call gave before.
InterpreterResults(m, f, ref_values) ==
    IF <<f, ref_values>> \in DOMAIN m.results THEN {m.results[<<f, ref_values>>]}
    ELSE EvalOutcomes(f, ref_values)
Remember(m, f, ref_values, out) ==
    IF <<f, ref_values>> \notin DOMAIN m.results
       /\ ~(FormulaInputs(f) \subseteq DOMAIN ref_values)
    THEN [m EXCEPT !.results = (<<f, ref_values>> :> out) @@ @]
    ELSE m

\* ------------------------------------------------------------------- rules
Some(x) == [some |-> TRUE, v |-> x]
Absent == [some |-> FALSE, v |-> 0]

\* A range of a group: the rectangle r1..r2 x c1..c2 ("A1:B2", or "A1").
Rng(r1, c1, r2, c2) == [r1 |-> r1, c1 |-> c1, r2 |-> r2, c2 |-> c2]

RECURSIVE RowCells(_, _, _)
RowCells(r, c, c2) == IF c > c2 THEN <<>> ELSE <<<<r, c>>>> \o RowCells(r, c + 1, c2)
RECURSIVE RangeCells(_, _)
\* for row in sheet[specific_range]: for cell in row
RangeCells(rg, r) ==
    IF r > rg.r2 THEN <<>> ELSE RowCells(r, rg.c1, rg.c2) \o RangeCells(rg, r + 1)
RECURSIVE AllCells(_, _)
\* for specific_range in cf_range.split(" ")
AllCells(ranges, i) ==
    IF i > Len(ranges) THEN <<>>
    ELSE RangeCells(ranges[i], ranges[i].r1) \o AllCells(ranges, i + 1)

\* The anchor: the first cell of the first row of the first range.
Anchor(ranges) ==
    IF Len(ranges) = 0 \/ RangeCells(ranges[1], ranges[1].r1) = <<>>
    THEN [error |-> TRUE, row |-> 1, column |-> 1]
    ELSE [error |-> FALSE, row |-> ranges[1].r1, column |-> ranges[1].c1]

\* -------------------------------------------------------------- the state
VARIABLES
    sheet,      \* the worksheet's cells: (row, column) -> raw value
    cfs,        \* sheet.conditional_formatting: groups of [cells, rules]
    fail_ok,    \* the caller's mode: TRUE lenient, FALSE strict
    pc,         \* "rule", "cells", "done" (returned), "raised" (exception)
    gi,         \* index of the current group (for cf in ...)
    ri,         \* index of the current rule of the group (for rule in ...)
    todo,       \* cells of the current rule still to visit, in loop order
    results,    \* the local dict results: cell -> recorded style
    returned,   \* what the caller received: Absent or Some(results)
    error,      \* the exception that reached the caller: "none", "eval", "lookup"
    trace,      \* history: one entry per (rule, cell) pair visited
    offs,       \* a call of get_offsets_for: its arguments and its result
    memo,       \* the interpreter's result on each call with an operand missing
    prev,       \* what the previous call of process on this worksheet gave
    \* CssRulesRegistry
    prefix,          \* self._prefix
    existing_rules,  \* self._existing_rules, in insertion order
    calls,           \* history: the register calls, their items and result
    listed,          \* what the last call of get_rules returned
    \* the resolver made by create_themed_css_color_resolver
    theme_argbs_list,   \* the palette the resolver was created with
    color,              \* the color passed to get_css_color
    css_color,          \* what get_css_color gave for it
    \* a call of CssBuilder.border, get_css_from_cell, argb_to_css,
    \* tint_luminance or get_theme_colors
    call,               \* the function called and its arguments
    ret                 \* what the call gave

\* The variables of the registry and of the color resolver.
registryVars == <<prefix, existing_rules, calls, listed>>
resolverVars == <<theme_argbs_list, color, css_color>>
others == <<registryVars, resolverVars, call, ret>>

vars ==
    <<sheet, cfs, fail_ok, pc, gi, ri, todo, results, returned, error, trace, offs,
      memo, prev, others>>
passVars ==
    <<sheet, cfs, fail_ok, pc, gi, ri, todo, results, returned, error, trace,
      memo, prev>>

NoOffs == [coord |-> <<>>, row_offset |-> 0, column_offset |-> 0, result |-> <<>>]
EmptyResults == [x \in {} |-> x]
NotReturned == [some |-> FALSE, v |-> EmptyResults]
EmptyMemo == [results |-> [x \in {} |-> x], orders |-> [x \in {} |-> x]]
NoPrev == [ran |-> FALSE, returned |-> NotReturned, error |-> "none"]

\* No registry and no resolver exist while a worksheet is processed.
NoRegistry ==
    /\ prefix = <<>>
    /\ existing_rules = <<>>
    /\ calls = <<>>
    /\ listed = <<>>
NotResolved == [state |-> "none", rgb |-> <<>>]
NoResolver ==
    /\ theme_argbs_list = <<>>
    /\ color = [type |-> "none", value |-> 0, tint |-> "0.0", rgb |-> <<>>]
    /\ css_color = NotResolved
\* No function of the library is called.
NoCall ==
    /\ call = [fn |-> "none"]
    /\ ret = [state |-> "none"]

\* ------------------------------------------------- operand resolution loop

\* The outcome of one operand reference: status "ok" (with the token, if
\* the value has one, and the cell read), "skip" or "raise".
Resolved(status, tk, row, column) ==
    [status |-> status, wrapped |-> tk.ok, tok |-> tk.tok, v |-> tk.v,
     row |-> row, column |-> column]
NoToken == [ok |-> FALSE, tok |-> "", v |-> ""]

\* curr_ref_value = getattr(offset_cell, "value", None) and its token
ReadOffsetCell(sh, offset_cell) ==
    IF offset_cell.kind # "Cell" THEN Resolved("skip", NoToken, 0, 0)
    ELSE Resolved("ok", ToToken(CellValue(sh, offset_cell.row, offset_cell.column)),
                  offset_cell.row, offset_cell.column)
\* isinstance(ref_cell, Cell), then get_offsets_for and ref_cell.offset
ResolveCell(sh, ref_cell, off) ==
    IF ref_cell.kind = "Raise" THEN Resolved("raise", NoToken, 0, 0)
    ELSE IF ref_cell.kind # "Cell" THEN Resolved("skip", NoToken, 0, 0)
    ELSE ReadOffsetCell(sh, CellOffset(ref_cell, off[1], off[2]))
\* the body of "for ref in curr_formula_inputs"
ResolveRef(sh, ref, delta_row, delta_col) ==
    ResolveCell(sh, SheetGetItem(ref), GetOffsetsFor(ref, delta_row, delta_col))

Built(status, ref_values, reads) ==
    [status |-> status, ref_values |-> ref_values, reads |-> reads]

RECURSIVE BuildRefValues(_, _, _, _, _, _)
RECURSIVE BuildNext(_, _, _, _, _, _, _)
\* for ref in curr_formula_inputs, in the order `order`:
\*   status "apply"  should_apply_func stays True
\*          "skip"   should_apply_func = False (logged, break)
\*          "raise"  sheet[ref] raised, outside every try
\* reads: the cells whose raw value was read, as <<ref, row, column>>.
BuildRefValues(sh, order, delta_row, delta_col, ref_values, reads) ==
    IF order = <<>>
    THEN Built("apply", ref_values, reads)
    ELSE BuildNext(sh, order, delta_row, delta_col, ref_values, reads,
                   ResolveRef(sh, Head(order), delta_row, delta_col))
BuildNext(sh, order, delta_row, delta_col, ref_values, reads, res) ==
    IF res.status # "ok"
    THEN Built(res.status, ref_values, reads)
    ELSE BuildRefValues(sh, Tail(order), delta_row, delta_col,
             IF res.wrapped
             THEN (Head(order) :> [tok |-> res.tok, v |-> res.v]) @@ ref_values
             ELSE ref_values,
             reads \cup {<<Head(order), res.row, res.column>>})

\* The orders in which a for loop can visit a set of (at most two) references.
Orders(S) ==
    IF S = {} THEN {<<>>}
    ELSE IF Cardinality(S) = 1 THEN {<<a>> : a \in S}
    ELSE {q \in S \X S : q[1] # q[2]}

\* Which of these orders the interpreter's set of inputs is iterated in is
\* not known, but it is the same every time the same set is iterated.
IterationOrders(m, inputs) ==
    IF inputs \in DOMAIN m.orders THEN {m.orders[inputs]} ELSE Orders(inputs)
RememberOrder(m, inputs, order) ==
    IF inputs \notin DOMAIN m.orders /\ Cardinality(inputs) > 1
    THEN [m EXCEPT !.orders = (inputs :> order) @@ @]
    ELSE m

\* ------------------------------------------------------------- the merge
\* Variants of the comparison below: the last match always wins; an equal
\* priority replaces; the comparison is reversed.
KeepsOld_LastWins(old_priority, cf_priority) == FALSE
KeepsOld_Strict(old_priority, cf_priority) == old_priority < cf_priority
KeepsOld_Reversed(old_priority, cf_priority) == old_priority >= cf_priority

\* if code in results: if old_priority <= cf_priority: continue
KeepsOld(old_priority, cf_priority) == old_priority <= cf_priority

ProposedStyle(cell, rule) ==
    [coordinate |-> cell,
     priority |-> rule.priority,
     dxfId |-> rule.dxfId.v,
     stopIfTrue |-> (rule.stopIfTrue = "True")]

MergeResult(res, cell, proposed) ==
    IF cell \in DOMAIN res /\ KeepsOld(res[cell].priority, proposed.priority)
    THEN res
    ELSE (cell :> proposed) @@ res

\* Variants of the test below: the exception always propagates; it never does.
Propagates_Always(out, failok) == out = "Raise"
Propagates_Never(out, failok) == FALSE

\* except Exception as exc: ... if not fail_ok: raise exc
Propagates(out, failok) == out = "Raise" /\ ~failok

\* -------------------------------------------------------- the rule header
CurGroup == cfs[gi]
CurRule == cfs[gi].rules[ri]

\* if dxf_id is not None
HasDxf(rule) == rule.dxfId.some

\* The rule reaches the loop over its cells: a style id, exactly one formula
\* that tokenizes and compiles, and an anchor.
RuleUsable(group, rule) ==
    /\ HasDxf(rule)
    /\ Len(rule.formula) = 1
    /\ TokenizerHasItems(rule.formula[1])
    /\ InterpreterCallable(rule.formula[1])
    /\ ~Anchor(group.cells).error

\* ------------------------------------------------------------- the actions
\* A rule that does not reach its cells: no style id (line 75), not exactly
\* one formula (297), no tokens (293), no callable (289), no anchor (284).
SkipRule ==
    /\ pc = "rule"
    /\ gi <= Len(cfs)
    /\ ri <= Len(CurGroup.rules)
    /\ ~RuleUsable(CurGroup, CurRule)
    /\ ri' = ri + 1
    /\ UNCHANGED <<sheet, cfs, fail_ok, pc, gi, todo, results, returned, error, trace, offs,
                   memo, prev, others>>

\* The rule reaches "for specific_range in cf_range.split(' ')".
BeginRule ==
    /\ pc = "rule"
    /\ gi <= Len(cfs)
    /\ ri <= Len(CurGroup.rules)
    /\ RuleUsable(CurGroup, CurRule)
    /\ todo' = AllCells(CurGroup.cells, 1)
    /\ pc' = "cells"
    /\ UNCHANGED <<sheet, cfs, fail_ok, gi, ri, results, returned, error, trace, offs, memo,
                   prev, others>>

\* The entry of the trace for the visit of `cell` by the current rule.
Entry(cell, f, b, out) ==
    [g |-> gi, r |-> ri, cell |-> cell, status |-> b.status, reads |-> b.reads,
     wrapped |-> (FormulaInputs(f) \subseteq DOMAIN b.ref_values), out |-> out]

\* sheet[ref] raised (line 156): the exception leaves process.
LookupRaises(cell, rule, b, m) ==
    /\ b.status = "raise"
    /\ pc' = "raised"
    /\ error' = "lookup"
    /\ trace' = Append(trace, Entry(cell, rule.formula[1], b, "none"))
    /\ memo' = m
    /\ UNCHANGED <<todo, results>>

\* should_apply_func is False: the pair is skipped.
SkipPair(cell, rule, b, m) ==
    /\ b.status = "skip"
    /\ todo' = Tail(todo)
    /\ trace' = Append(trace, Entry(cell, rule.formula[1], b, "none"))
    /\ memo' = m
    /\ UNCHANGED <<pc, error, results>>

\* The try block of lines 231-283: the formula is invoked.
ApplyFormula(cell, rule, b, m) ==
    /\ b.status = "apply"
    /\ \E out \in InterpreterResults(m, rule.formula[1], b.ref_values) :
          /\ trace' = Append(trace, Entry(cell, rule.formula[1], b, out))
          /\ memo' = Remember(m, rule.formula[1], b.ref_values, out)
          /\ IF Propagates(out, fail_ok)
             THEN /\ pc' = "raised"
                  /\ error' = "eval"
                  /\ UNCHANGED <<todo, results>>
             ELSE /\ todo' = Tail(todo)
                  /\ results' = IF out = "True"
                                THEN MergeResult(results, cell, ProposedStyle(cell, rule))
                                ELSE results
                  /\ UNCHANGED <<pc, error>>

VisitCell(cell, rule, b, m) ==
    \/ LookupRaises(cell, rule, b, m)
    \/ SkipPair(cell, rule, b, m)
    \/ ApplyFormula(cell, rule, b, m)

\* One iteration of "for cell in row" (lines 147-283).
ProcessCell ==
    /\ pc = "cells"
    /\ todo # <<>>
    /\ \E order \in IterationOrders(memo, FormulaInputs(CurRule.formula[1])) :
          VisitCell(Head(todo), CurRule,
                    BuildRefValues(sheet, order,
                                   Head(todo)[1] - Anchor(CurGroup.cells).row,
                                   Head(todo)[2] - Anchor(CurGroup.cells).column,
                                   [x \in {} |-> x], {}),
                    RememberOrder(memo, FormulaInputs(CurRule.formula[1]), order))
    /\ UNCHANGED <<sheet, cfs, fail_ok, gi, ri, returned, offs, prev, others>>

\* The loops over the cells of the rule are exhausted: next rule.
EndRule ==
    /\ pc = "cells"
    /\ todo = <<>>
    /\ pc' = "rule"
    /\ ri' = ri + 1
    /\ UNCHANGED <<sheet, cfs, fail_ok, gi, todo, results, returned, error, trace, offs,
                   memo, prev, others>>

\* "for rule in cf.rules" is exhausted: next group.
EndGroup ==
    /\ pc = "rule"
    /\ gi <= Len(cfs)
    /\ ri > Len(CurGroup.rules)
    /\ gi' = gi + 1
    /\ ri' = 1
    /\ UNCHANGED <<sheet, cfs, fail_ok, pc, todo, results, returned, error, trace, offs,
                   memo, prev, others>>

\* return results
Return ==
    /\ pc = "rule"
    /\ gi > Len(cfs)
    /\ pc' = "done"
    /\ returned' = Some(results)
    /\ UNCHANGED <<sheet, cfs, fail_ok, gi, ri, todo, results, error, trace, offs, memo,
                   prev, others>>

\* ------------------------------------------------------------- worksheets
RefA1 == <<"A", "1">>
RefAbsA1 == <<"$", "A", "$", "1">>
RefColAbsA1 == <<"$", "A", "1">>
RefRowAbsA1 == <<"A", "$", "1">>
RefAbsB1 == <<"$", "B", "$", "1">>

Yes == StrVal("Yes")
No == StrVal("No")

\* A rule as the worksheet declares it; the style id of a usable rule is
\* 6 + k for the k-th rule of the worksheet, so that two rules never share one.
\* type, operator and text are the attributes of the rule that process never
\* reads.
MkRule(t, k) ==
    [dxfId |-> IF t.dxf = "ok" THEN Some(6 + k)
               ELSE IF t.dxf = "negative" THEN Some(0 - 1) ELSE Absent,
     priority |-> t.priority,
     stopIfTrue |-> t.stopIfTrue,
     formula |-> t.formula,
     type |-> t.type,
     operator |-> t.operator,
     text |-> t.text]

\* A rule of type "expression" (a FormulaRule).
Tmpl(f, p, s, d) ==
    [formula |-> f, priority |-> p, stopIfTrue |-> s, dxf |-> d,
     type |-> "expression", operator |-> "None", text |-> "None"]
\* A rule of another type, with its operator and its text.
KindTmpl(type, operator, text, f) ==
    [formula |-> f, priority |-> 1, stopIfTrue |-> "None", dxf |-> "ok",
     type |-> type, operator |-> operator, text |-> text]

\* Usable rules that differ in priority, stop flag and match pattern.
CoreTemplates ==
    {Tmpl(<<f>>, p, s, "ok") :
        f \in {FEq(RefA1, "Yes"), FConst("TRUE")},
        p \in 1..MaxPriority, s \in {"None", "True"}}
    \cup {Tmpl(<<[kind |-> "Raise", refs |-> <<>>, lit |-> ""]>>, p, "None",
               "ok") : p \in 1..MaxPriority}

\* Rules without a usable style id, without exactly one formula, with a
\* formula that does not tokenize or compile, or with a result that is no
\* match.
OddTemplates ==
    {Tmpl(<<FConst("TRUE")>>, p, "False", "negative") : p \in 1..MaxPriority}
    \cup {Tmpl(<<FConst("TRUE")>>, 1, "False", "absent")}
    \cup {Tmpl(fs, 1, "None", "ok") :
        fs \in {<<>>, <<FConst("TRUE"), FConst("TRUE")>>,
                <<[kind |-> "Empty", refs |-> <<>>, lit |-> ""]>>,
                <<[kind |-> "NoCallable", refs |-> <<>>,
                   lit |-> ""]>>, <<FConst("YES")>>, <<FConst("FALSE")>>}}

\* Rules that differ in their operand references.
RefTemplates ==
    {Tmpl(<<f>>, 1, "None", "ok") :
        f \in {FEq(RefA1, "Yes"), FEq(RefAbsA1, "Yes"), FEq(RefColAbsA1, "Yes"),
               FEq(RefRowAbsA1, "Yes"), FEq(<<"A", ":", "A">>, "Yes"),
               FEq(<<"S", "!", "A", "1">>, "Yes"), FEqRef(RefA1, RefAbsB1),
               FEqRef(<<"A", ":", "A">>, <<"S", "!", "A", "1">>)}}

\* The text types of a rule.
TextTypes == {"containsText", "notContainsText", "beginsWith", "endsWith"}

\* Rules of another type than expression. Of type cellIs: an operator and
\* one operand formula (the number 1), or two for between and notBetween (1
\* and 2). Of a text type: the text searched for, and either no formula or
\* one formula that is true of every cell. Of a type that is none of these,
\* with one formula.
KindTemplates ==
    {KindTmpl("cellIs", op, "None", <<FConst("1")>>) :
        op \in {"equal", "notEqual", "greaterThan", "greaterThanOrEqual",
                "lessThan", "lessThanOrEqual"}}
    \cup {KindTmpl("cellIs", op, "None", <<FConst("1"), FConst("2")>>) :
            op \in {"between", "notBetween"}}

    \cup {KindTmpl(ty, ty, tx, fs) :
            ty \in TextTypes, tx \in {"ye", "ES"}, fs \in {<<>>, <<FConst("TRUE")>>}}
    \cup {KindTmpl(ty, "None", "None", <<f>>) :
            ty \in {"timePeriod", "unknownKind"},
            f \in {FConst("TRUE"), FEq(RefA1, "Yes")}}

\* The first n rules of a choice of templates, the k-th numbered k.
RuleList(ts, n) == [k \in 1..n |-> MkRule(ts[k], k)]

ColumnA == Rng(1, 1, MaxRow, 1)
WholeGrid == Rng(1, 1, MaxRow, MaxCol)

Group(ranges, rules) == [cells |-> ranges, rules |-> rules]

\* The cell contents of the worksheets: Yes everywhere; No in the first row;
\* No in the first column; No everywhere.
AllYes == [c \in Grid |-> Yes]
FirstRowNo == [c \in Grid |-> IF c[1] = 1 THEN No ELSE Yes]

\* Worksheets for the priority arbitration: one group with up to MaxRules
\* usable rules over column A or its last cell, or two groups with one rule
\* each.
InitMerge ==
    /\ sheet \in {AllYes, FirstRowNo}
    /\ \E ts \in [1..MaxRules -> CoreTemplates] :
       \E rg \in {<<ColumnA>>, <<Rng(MaxRow, 1, MaxRow, 1)>>} :
          \/ \E n \in 1..MaxRules : cfs = <<Group(rg, RuleList(ts, n))>>
          \/ cfs = <<Group(<<ColumnA>>, <<MkRule(ts[1], 1)>>),
                     Group(rg, <<MkRule(ts[2], 2)>>)>>

\* Worksheets with a rule that is skipped or never matches, before or after
\* a usable rule over the same cells.
InitOdd ==
    /\ sheet \in {AllYes, FirstRowNo}
    /\ \E odd \in OddTemplates : \E core \in CoreTemplates :
          \/ cfs = <<Group(<<ColumnA>>, <<MkRule(odd, 1), MkRule(core, 2)>>)>>
          \/ cfs = <<Group(<<ColumnA>>, <<MkRule(core, 1), MkRule(odd, 2)>>)>>

\* Worksheets for the operand resolution: one group over the whole grid, or
\* over its last cell and then its first cell (so that a target lies up-left
\* of the anchor); A1 may hold a number.
InitRefs ==
    /\ sheet \in {AllYes, FirstRowNo, [c \in Grid |-> IF c[2] = 1 THEN No ELSE Yes],
                  [c \in Grid |-> No],
                  [AllYes EXCEPT ![<<1, 1>>] = NumVal]}
    /\ \E ts \in [1..MaxRules -> RefTemplates] :
       \E rg \in {<<WholeGrid>>, <<Rng(MaxRow, MaxCol, MaxRow, MaxCol), Rng(1, 1, 1, 1)>>} :
       \E n \in 1..MaxRules :
          cfs = <<Group(rg, RuleList(ts, n))>>

\* Worksheets with a value the pass has no token for: A1 holds a date, one
\* rule over the first row.
DateSheets == {[AllYes EXCEPT ![<<1, 1>>] = [t |-> "date", v |-> "2026-01-01"]]}
InitDates ==
    /\ sheet \in DateSheets
    /\ \E t \in RefTemplates : cfs = <<Group(<<Rng(1, 1, 1, MaxCol)>>, <<MkRule(t, 1)>>)>>

\* Worksheets with a rule of another type than expression, alone or before a
\* usable expression rule; the first row holds the number 1 or nothing.
InitKinds ==
    /\ sheet \in {[c \in Grid |-> IF c[1] = 1 THEN NumVal ELSE Yes],
                  [c \in Grid |-> IF c[1] = 1 THEN NoneVal ELSE No]}
    /\ \E t \in KindTemplates :
          \/ cfs = <<Group(<<ColumnA>>, <<MkRule(t, 1)>>)>>
          \/ \E core \in CoreTemplates :
                cfs = <<Group(<<ColumnA>>, <<MkRule(t, 1), MkRule(core, 2)>>)>>

\* The state when process(sheet, fail_ok) starts: results = {}, nothing
\* visited yet.
Start ==
    /\ fail_ok \in BOOLEAN
    /\ pc = "rule"
    /\ gi = 1
    /\ ri = 1
    /\ todo = <<>>
    /\ results = EmptyResults
    /\ returned = NotReturned
    /\ error = "none"
    /\ trace = <<>>
    /\ offs = NoOffs
    /\ memo = EmptyMemo
    /\ prev = NoPrev
    /\ NoRegistry
    /\ NoResolver
    /\ NoCall

Init ==
    /\ InitMerge \/ InitOdd \/ InitRefs \/ InitDates \/ InitKinds
    /\ Start

Next ==
    \/ SkipRule
    \/ BeginRule
    \/ ProcessCell
    \/ EndRule
    \/ EndGroup
    \/ Return

Spec == Init /\ [][Next]_vars

\* ------------------------------------------------ process called once more
\* Variant of StartIndex: the loop over the groups resumes where the
\* previous call left it (an iterator that is consumed once).
StartIndex_Resume(last) == last

\* for cf in sheet.conditional_formatting: each call starts at the first
\* group, wherever the previous call stopped.
StartIndex(last) == 1

\* The caller calls process(sheet, fail_ok) again on the same worksheet,
\* after the call returned or raised: results is a new empty dict.
Rerun ==
    /\ pc \in {"done", "raised"}
    /\ ~prev.ran
    /\ prev' = [ran |-> TRUE, returned |-> returned, error |-> error]
    /\ pc' = "rule"
    /\ gi' = StartIndex(gi)
    /\ ri' = 1
    /\ todo' = <<>>
    /\ results' = EmptyResults
    /\ returned' = NotReturned
    /\ error' = "none"
    /\ trace' = <<>>
    /\ UNCHANGED <<sheet, cfs, fail_ok, offs, memo, others>>

NextTwice == Next \/ Rerun

SpecTwice == Init /\ [][NextTwice]_vars

\* ------------------------------------------- get_offsets_for on its own
InitOffsets ==
    /\ sheet \in DateSheets
    /\ cfs = <<>>
    /\ fail_ok = TRUE
    /\ pc = "rule"
    /\ gi = 1
    /\ ri = 1
    /\ todo = <<>>
    /\ results = EmptyResults
    /\ returned = NotReturned
    /\ error = "none"
    /\ trace = <<>>
    /\ memo = EmptyMemo
    /\ prev = NoPrev
    /\ NoRegistry
    /\ NoResolver
    /\ NoCall
    /\ offs \in [coord : {RefA1, RefColAbsA1, RefRowAbsA1, RefAbsA1, <<"A">>, RefAbsB1,
                          <<"B", "2">>, <<"$", "B", "2">>, <<"B", "$", "2">>},
                 row_offset : (0 - MaxDelta)..MaxDelta,
                 column_offset : (0 - MaxDelta)..MaxDelta,
                 result : {<<>>}]

CallGetOffsetsFor ==
    /\ offs.result = <<>>
    /\ offs' = [offs EXCEPT !.result =
                    GetOffsetsFor(offs.coord, offs.row_offset, offs.column_offset)]
    /\ UNCHANGED <<passVars, others>>

NextOffsets == CallGetOffsetsFor

SpecOffsets == InitOffsets /\ [][NextOffsets]_vars

\* ----------------------------------------------------- reading the trace
RuleOf(e) == cfs[e.g].rules[e.r]
Matched(i) == trace[i].out = "True"
UsableId(rule) == rule.dxfId.some /\ rule.dxfId.v >= 0
MatchesOn(c) == {i \in DOMAIN trace : trace[i].cell = c /\ Matched(i)}
VisitedCells == {trace[i].cell : i \in DOMAIN trace}

\* ------------------------------------------------------------------ claims

\* C1 - Priority law: when the pass has returned, for any two rules with a
\* usable style id and priorities p1 < p2 that both matched the same cell,
\* the cell has a winner, the winner is not the p2 rule (its priority is at
\* most p1 and its style id is not the p2 rule's), and when no other matching
\* rule is as good as the p1 rule the winner carries p1 and the p1 rule's
\* style id - in whatever order the two rules were processed.
C1_PriorityLaw ==
    pc = "done" =>
        \A i, j \in DOMAIN trace :
            (/\ trace[i].cell = trace[j].cell
             /\ Matched(i) /\ Matched(j)
             /\ UsableId(RuleOf(trace[i])) /\ UsableId(RuleOf(trace[j]))
             /\ RuleOf(trace[i]).priority < RuleOf(trace[j]).priority)
            => LET c == trace[i].cell
                   r1 == RuleOf(trace[i])
                   r2 == RuleOf(trace[j])
               IN  /\ c \in DOMAIN returned.v
                   /\ returned.v[c].priority <= r1.priority
                   /\ returned.v[c].dxfId # r2.dxfId.v
                   /\ (\A k \in MatchesOn(c) \ {i} :
                           RuleOf(trace[k]).priority > r1.priority)
                      => /\ returned.v[c].priority = r1.priority
                         /\ returned.v[c].dxfId = r1.dxfId.v

\* The p2 rule matched the cell first, the p1 rule afterwards, and the pass
\* returned the p1 rule's style.
C1_Witness ==
    /\ pc = "done"
    /\ \E i, j \in DOMAIN trace :
          /\ j < i
          /\ trace[i].cell = trace[j].cell
          /\ Matched(i) /\ Matched(j)
          /\ UsableId(RuleOf(trace[i])) /\ UsableId(RuleOf(trace[j]))
          /\ RuleOf(trace[i]).priority < RuleOf(trace[j]).priority
          /\ returned.v[trace[i].cell].dxfId = RuleOf(trace[i]).dxfId.v

\* The last (rule, cell) pair visited by a step, if the step visited one.
Visits == Len(trace') = Len(trace) + 1
Visit == trace'[Len(trace')]

C2_Step ==
    \* entries are never removed; a changed entry has a strictly lower priority
    /\ \A c \in DOMAIN results :
          /\ c \in DOMAIN results'
          /\ \/ results'[c] = results[c]
             \/ results'[c].priority < results[c].priority
    \* an entry is created or changed only by a match on that cell
    /\ \A c \in DOMAIN results' :
          (c \notin DOMAIN results \/ results'[c] # results[c])
          => /\ Visits
             /\ Visit.cell = c
             /\ Visit.out = "True"
             /\ results'[c] = ProposedStyle(c, RuleOf(Visit))
    \* the first match on a cell creates its entry
    /\ (Visits /\ Visit.out = "True" /\ Visit.cell \notin DOMAIN results)
       => Visit.cell \in DOMAIN results'
    \* a match of equal or higher priority leaves the entry unchanged
    /\ (/\ Visits /\ Visit.out = "True" /\ Visit.cell \in DOMAIN results
        /\ RuleOf(Visit).priority >= results[Visit.cell].priority)
       => results' = results

\* C2 - Winner invariant: in every step of the pass, an entry of results is
\* created by the first match on its cell, replaced only by a match of
\* strictly lower priority, left unchanged by a match of equal or higher
\* priority and never removed; a cell's recorded priority never increases.
C2_WinnerInvariant == [][C2_Step]_vars

\* Two rules of equal priority matched the same cell and the entry of the
\* first stayed.
C2_Witness ==
    \E i, j \in DOMAIN trace :
        /\ i < j
        /\ trace[i].cell = trace[j].cell
        /\ Matched(i) /\ Matched(j)
        /\ RuleOf(trace[i]).priority = RuleOf(trace[j]).priority
        /\ RuleOf(trace[i]).dxfId.v # RuleOf(trace[j]).dxfId.v
        /\ results[trace[i].cell].dxfId = RuleOf(trace[i]).dxfId.v

\* C3 - Stop law: from the moment a rule with stopIfTrue set has matched a
\* cell, in every later state and in the returned mapping the cell has a
\* winner whose priority is not greater than the stop rule's and whose style
\* id is not that of any rule of numerically greater priority.
C3_StopLaw ==
    \A i \in DOMAIN trace :
        (Matched(i) /\ RuleOf(trace[i]).stopIfTrue = "True")
        => LET c == trace[i].cell
               stop == RuleOf(trace[i])
           IN  /\ c \in DOMAIN results
               /\ results[c].priority <= stop.priority
               /\ \A g \in DOMAIN cfs : \A r \in DOMAIN cfs[g].rules :
                     (HasDxf(cfs[g].rules[r]) /\ cfs[g].rules[r].priority > stop.priority)
                     => results[c].dxfId # cfs[g].rules[r].dxfId.v
               /\ pc = "done" => returned.v[c] = results[c]

\* A stop rule matched a cell, a rule of greater priority matched the same
\* cell afterwards, and the pass returned.
C3_Witness ==
    /\ pc = "done"
    /\ \E i, j \in DOMAIN trace :
          /\ i < j
          /\ trace[i].cell = trace[j].cell
          /\ Matched(i) /\ Matched(j)
          /\ RuleOf(trace[i]).stopIfTrue = "True"
          /\ RuleOf(trace[j]).priority > RuleOf(trace[i]).priority

\* The position an unlocked reference denotes for the pair of entry e:
\* r + (t - a) on both axes.
Replayed(e) ==
    LET ref_cell == SheetGetItem(RuleOf(e).formula[1].refs[1])
        a == Anchor(cfs[e.g].cells)
    IN  <<ref_cell.row + (e.cell[1] - a.row), ref_cell.column + (e.cell[2] - a.column)>>

IsColRow(s) == Len(s) = 2 /\ IsLetter(s[1]) /\ IsDigit(s[2])

C6_NoFalsePositive ==
    \A c \in DOMAIN results :
        results[c].dxfId >= 0
        => \E i \in DOMAIN trace :
              /\ trace[i].cell = c
              /\ UsableId(RuleOf(trace[i]))
              /\ trace[i].status = "apply"
              /\ trace[i].wrapped
              /\ trace[i].out = "True"

\* The winner the matches of the trace call for on cell c: the earliest
\* match among those of least priority.
BestMatch(c) ==
    CHOOSE i \in MatchesOn(c) :
        \A k \in MatchesOn(c) :
            \/ RuleOf(trace[i]).priority < RuleOf(trace[k]).priority
            \/ RuleOf(trace[i]).priority = RuleOf(trace[k]).priority /\ i <= k

Raised(i) == trace[i].out = "Raise"

C7_Step ==
    (fail_ok /\ Visits /\ Visit.out = "Raise")
    => /\ results' = results
       /\ pc' = "cells"
       /\ error' = "none"
       /\ todo' = Tail(todo)

\* C7 - Lenient containment: with fail_ok = TRUE an exception raised by the
\* evaluation of a formula never reaches the caller; the step that meets it
\* changes no winner and goes on with the next cell; and a pass that met such
\* an exception returns the winners its other pairs call for, as if the
\* failing pair had evaluated to false.
C7_LenientContainment ==
    /\ [](fail_ok => error # "eval")
    /\ [][C7_Step]_vars
    /\ []((fail_ok /\ pc = "done" /\ \E i \in DOMAIN trace : Raised(i))
          => /\ returned.some
             /\ DOMAIN returned.v = {c \in VisitedCells : MatchesOn(c) # {}}
             /\ \A c \in DOMAIN returned.v :
                   returned.v[c] = ProposedStyle(c, RuleOf(trace[BestMatch(c)])))

\* A lenient pass met an evaluation exception, returned, and another pair
\* visited after the failing one contributed a winner.
C7_Witness ==
    /\ fail_ok
    /\ pc = "done"
    /\ \E i, j \in DOMAIN trace :
          /\ i < j
          /\ Raised(i)
          /\ Matched(j)
          /\ trace[j].cell \in DOMAIN returned.v

\* C8 - Strict abort: with fail_ok = FALSE an exception raised by the
\* evaluation of a formula reaches the caller: the pass stops there, the
\* failing pair is the last one visited, and nothing is returned.
C8_StrictAbort ==
    /\ \A i \in DOMAIN trace :
          (~fail_ok /\ Raised(i))
          => /\ pc = "raised"
             /\ error = "eval"
             /\ i = Len(trace)
    /\ pc = "raised" => ~returned.some

\* A strict pass had found a winner, met an evaluation exception with cells
\* still to visit, and returned nothing.
C8_Witness ==
    /\ ~fail_ok
    /\ pc = "raised"
    /\ error = "eval"
    /\ DOMAIN results # {}
    /\ Len(todo) > 1
    /\ ~returned.some

\* C9 - Reference failures are non-fatal: a failure to resolve an operand
\* reference skips its (rule, cell) pair only, in either mode: the formula is
\* not invoked for the pair and no exception reaches the caller.
C9_ReferenceFailuresNonFatal ==
    /\ \A i \in DOMAIN trace : trace[i].status # "apply" => trace[i].out = "none"
    /\ error # "lookup"
    /\ \A i \in DOMAIN trace : trace[i].status # "apply" => pc # "raised"

\* C10 - A rule with an absent or negative style id is skipped: it visits no
\* cell and no winner carries a negative style id.
C10_SkipsAbsentOrNegativeId ==
    /\ \A i \in DOMAIN trace : UsableId(RuleOf(trace[i]))
    /\ \A c \in DOMAIN results : results[c].dxfId >= 0

\* The kinds of rule the engine distinguishes: Expression, Comparison
\* (cellIs) and the four text matches; any other type is an unknown kind.
KnownTypes == {"expression", "cellIs"} \cup TextTypes

BadFormula(f) == ~TokenizerHasItems(f) \/ ~InterpreterCallable(f)

\* An unusable rule: a formula that does not tokenize or compile, an
\* Expression rule without exactly one formula, an unknown kind, or no anchor.
Unusable(group, rule) ==
    \/ \E k \in DOMAIN rule.formula : BadFormula(rule.formula[k])
    \/ rule.type = "expression" /\ Len(rule.formula) # 1
    \/ rule.type \notin KnownTypes
    \/ Anchor(group.cells).error

\* An Expression rule with a style id and one formula that compiles.
GoodExpression(group, rule) ==
    /\ rule.type = "expression"
    /\ HasDxf(rule)
    /\ ~Unusable(group, rule)

\* C11 - An unusable rule is skipped and processing continues: a rule whose
\* formula cannot be tokenized or compiled, an Expression rule with zero or
\* several formulas, a rule of unknown kind, or a rule without anchor visits
\* no cell and gives no cell its style id, and when the pass has returned
\* every Expression rule with a style id and one compiled formula, before or
\* after it, has visited all the cells of its ranges.
C11_UnusableRuleSkipped ==
    /\ \A i \in DOMAIN trace : ~Unusable(cfs[trace[i].g], RuleOf(trace[i]))
    /\ \A c \in DOMAIN results :
          \A g \in DOMAIN cfs : \A r \in DOMAIN cfs[g].rules :
              (Unusable(cfs[g], cfs[g].rules[r]) /\ UsableId(cfs[g].rules[r]))
              => results[c].dxfId # cfs[g].rules[r].dxfId.v
    /\ pc = "done" =>
          \A g \in DOMAIN cfs : \A r \in DOMAIN cfs[g].rules :
              GoodExpression(cfs[g], cfs[g].rules[r])
              => \A k \in DOMAIN AllCells(cfs[g].cells, 1) :
                    \E i \in DOMAIN trace :
                        /\ trace[i].g = g /\ trace[i].r = r
                        /\ trace[i].cell = AllCells(cfs[g].cells, 1)[k]

\* The number a numeric literal or a numeric cell value stands for.
NumOf(lit) == IF lit = "1" THEN 1 ELSE IF lit = "2" THEN 2 ELSE 0

\* The operator of a Comparison rule, between the cell's value x and the
\* operands a (and b for between and notBetween).
CmpHolds(op, x, a, b) ==
    IF op = "equal" THEN x = a
    ELSE IF op = "notEqual" THEN x # a
    ELSE IF op = "greaterThan" THEN x > a
    ELSE IF op = "greaterThanOrEqual" THEN x >= a
    ELSE IF op = "lessThan" THEN x < a
    ELSE IF op = "lessThanOrEqual" THEN x <= a
    ELSE IF op = "between" THEN a <= x /\ x <= b
    ELSE ~(a <= x /\ x <= b)

\* The worksheet holds one group with one rule, of the given types and with
\* a usable style id.
SoleRuleOf(types) ==
    /\ Len(cfs) = 1
    /\ Len(cfs[1].rules) = 1
    /\ cfs[1].rules[1].type \in types
    /\ UsableId(cfs[1].rules[1])

\* C13 - Comparison rules: when the pass over a worksheet whose only rule is
\* a Comparison rule (type cellIs) has returned, a numeric cell of the rule's
\* ranges has a winner exactly when the rule's operator holds between the
\* cell's own value and the operand(s), between and notBetween on the
\* inclusive range of the two operands.
C13_ComparisonRules ==
    (pc = "done" /\ SoleRuleOf({"cellIs"}))
    => LET rule == cfs[1].rules[1]
           a == NumOf(rule.formula[1].lit)
           b == IF Len(rule.formula) = 2 THEN NumOf(rule.formula[2].lit) ELSE a
       IN  \A k \in DOMAIN AllCells(cfs[1].cells, 1) :
              LET c == AllCells(cfs[1].cells, 1)[k]
                  x == CellValue(sheet, c[1], c[2])
              IN  x.t = "num"
                  => (c \in DOMAIN returned.v
                        <=> CmpHolds(rule.operator, NumOf(x.v), a, b))

\* The characters of the strings of the worksheets above.
CharsOf(str) ==
    IF str = "Yes" THEN <<"Y", "e", "s">>
    ELSE IF str = "No" THEN <<"N", "o">>
    ELSE IF str = "ye" THEN <<"y", "e">>
    ELSE IF str = "ES" THEN <<"E", "S">>
    ELSE IF str = "1" THEN <<"1">>
    ELSE <<>>
LowerCh(ch) ==
    IF ch = "Y" THEN "y" ELSE IF ch = "E" THEN "e" ELSE IF ch = "S" THEN "s"
    ELSE IF ch = "N" THEN "n" ELSE IF ch = "O" THEN "o" ELSE ch
Lower(str) == [i \in DOMAIN str |-> LowerCh(str[i])]

\* The stringified value of a cell, the empty string for a null value.
TextOfValue(value) == IF value.t = "none" THEN <<>> ELSE CharsOf(value.v)

IsPrefix(p, str) == Len(p) <= Len(str) /\ SubSeq(str, 1, Len(p)) = p
IsSuffix(p, str) ==
    Len(p) <= Len(str) /\ SubSeq(str, Len(str) - Len(p) + 1, Len(str)) = p
IsInfix(p, str) ==
    \E i \in 0..(Len(str) - Len(p)) : SubSeq(str, i + 1, i + Len(p)) = p

\* The test of a TextMatch rule of the given type, case-insensitive.
TextHolds(type, text, value) ==
    LET p == Lower(CharsOf(text))
        str == Lower(TextOfValue(value))
    IN  IF type = "containsText" THEN IsInfix(p, str)
        ELSE IF type = "notContainsText" THEN ~IsInfix(p, str)
        ELSE IF type = "beginsWith" THEN IsPrefix(p, str)
        ELSE IsSuffix(p, str)

\* C14 - TextMatch rules: when the pass over a worksheet whose only rule is
\* a rule of type containsText, notContainsText, beginsWith or endsWith has
\* returned, a cell of the rule's ranges has a winner exactly when the
\* case-insensitive substring, negated substring, prefix or suffix test of
\* the rule's text holds against the stringified value of the cell, a null
\* value counting as the empty string.
C14_TextMatchRules ==
    (pc = "done" /\ SoleRuleOf(TextTypes))
    => \A k \in DOMAIN AllCells(cfs[1].cells, 1) :
          LET c == AllCells(cfs[1].cells, 1)[k]
              rule == cfs[1].rules[1]
          IN  c \in DOMAIN returned.v
                <=> TextHolds(rule.type, rule.text, CellValue(sheet, c[1], c[2]))

MaxCalls == 3
MaxItems == 2

\* The characters of the declarations, in code point order.
CharOrder ==
    <<" ", "!", "#", "-", "0", "1", "2", "3", "4", "5", "6", "7", "8", "9",
      "A", "B", "C", "D", "E", "F", "a", "b", "c", "d", "e", "f", "g", "h",
      "i", "j", "k", "l", "m", "n", "o", "p", "q", "r", "s", "t", "u", "v",
      "w", "x", "y", "z">>
CodeOf(ch) == CHOOSE i \in DOMAIN CharOrder : CharOrder[i] = ch

RECURSIVE StrLess(_, _)
\* a < b on str: the first differing character decides, a proper prefix is
\* smaller.
StrLess(a, b) ==
    IF b = <<>> THEN FALSE
    ELSE IF a = <<>> THEN TRUE
    ELSE IF Head(a) # Head(b) THEN CodeOf(Head(a)) < CodeOf(Head(b))
    ELSE StrLess(Tail(a), Tail(b))

RECURSIVE InsertSorted(_, _)
\* the place of one more item in a sorted list, by < on (k, v) tuples
InsertSorted(item, sorted) ==
    IF sorted = <<>> THEN <<item>>
    ELSE IF \/ StrLess(item[1], Head(sorted)[1])
            \/ item[1] = Head(sorted)[1] /\ StrLess(item[2], Head(sorted)[2])
         THEN <<item>> \o sorted
    ELSE <<Head(sorted)>> \o InsertSorted(item, Tail(sorted))
\* Variant of SortedItems: the items are taken in the order given.
SortedItems_Unsorted(items) == items

RECURSIVE SortedItems(_)
\* sorted_items = sorted(items)
SortedItems(items) ==
    IF items = <<>> THEN <<>>
    ELSE InsertSorted(items[Len(items)], SortedItems(SubSeq(items, 1, Len(items) - 1)))

RECURSIVE JoinProperties(_)
\* "\n\t".join(f"{k}: {v};" for k, v in sorted_items)
JoinProperties(sorted_items) ==
    IF sorted_items = <<>> THEN <<>>
    ELSE Head(sorted_items)[1] \o <<":", " ">> \o Head(sorted_items)[2] \o <<";">>
         \o (IF Tail(sorted_items) = <<>> THEN <<>>
             ELSE <<"\n", "\t">> \o JoinProperties(Tail(sorted_items)))
\* css_rule_contents = f"{{\n\t{css_properties}\n}}"
CssRuleContents(sorted_items) ==
    <<"{", "\n", "\t">> \o JoinProperties(sorted_items) \o <<"\n", "}">>

HexDigits == <<"0", "1", "2", "3", "4", "5", "6", "7", "8", "9",
               "a", "b", "c", "d", "e", "f">>
RECURSIVE Decimal(_)
\* str(n) of a non-negative int
Decimal(n) ==
    IF n < 10 THEN <<HexDigits[n + 1]>>
    ELSE Decimal(n \div 10) \o <<HexDigits[(n % 10) + 1]>>

\* Variant of HashInput: the length alone is hashed.
HashInput_LengthOnly(css_rule_contents) == Decimal(Len(css_rule_contents))

\* hash_input = f"{len(css_rule_contents)}|{css_rule_contents}"
HashInput(css_rule_contents) ==
    Decimal(Len(css_rule_contents)) \o <<"|">> \o css_rule_contents

\* css_rule_hash = blake3(hash_input).hexdigest(length=28): the digest
\* stands for its input, two inputs have the same digest only if they are
\* the same.
CssRuleHash(css_rule_contents) == [blake3 |-> HashInput(css_rule_contents)]

RECURSIVE Hex(_)
\* hex(n)[2:]
Hex(n) ==
    IF n < 16 THEN <<HexDigits[n + 1]>>
    ELSE Hex(n \div 16) \o <<HexDigits[(n % 16) + 1]>>
RECURSIVE ZFill(_, _)
\* str.zfill(width)
ZFill(str, width) == IF Len(str) >= width THEN str ELSE ZFill(<<"0">> \o str, width)

\* Variant of RuleCount: the classnames are numbered from 1.
RuleCount_FromOne(rules) == Len(rules) + 1

\* rule_count = len(self._existing_rules)
RuleCount(rules) == Len(rules)

\* classname = f"{self._prefix}_x{hex(rule_count)[2:].zfill(4)}"
Classname(pfx, rule_count) == pfx \o <<"_", "x">> \o ZFill(Hex(rule_count), 4)

\* Variant of StoreRule: the new entry is put before the others.
StoreRule_First(rules, entry) == <<entry>> \o rules

\* self._existing_rules[css_rule_hash] = (classname, css_rule_contents,
\* new_rule): a new key of a dict comes after the keys it holds.
StoreRule(rules, entry) == Append(rules, entry)

\* What register(items) returns and what it leaves in self._existing_rules:
\* on a known hash the classname of its entry, and nothing new; otherwise a
\* new classname and a new entry under the hash, whose third component is
\* new_rule = dict(sorted_items) (for a property given twice the last value
\* stays).
Registered(pfx, rules, sorted_items) ==
    IF \E i \in DOMAIN rules : rules[i].hash = CssRuleHash(CssRuleContents(sorted_items))
    THEN [classname |->
              rules[CHOOSE i \in DOMAIN rules :
                  rules[i].hash = CssRuleHash(CssRuleContents(sorted_items))].classname,
          rules |-> rules]
    ELSE [classname |-> Classname(pfx, RuleCount(rules)),
          rules |-> StoreRule(rules,
              [hash |-> CssRuleHash(CssRuleContents(sorted_items)),
               classname |-> Classname(pfx, RuleCount(rules)),
               contents |-> CssRuleContents(sorted_items),
               source |->
                   [k \in {sorted_items[i][1] : i \in DOMAIN sorted_items} |->
                       sorted_items[CHOOSE i \in DOMAIN sorted_items :
                           /\ sorted_items[i][1] = k
                           /\ \A j \in DOMAIN sorted_items :
                                 sorted_items[j][1] = k => j <= i][2]]])]

\* [f".{t[0]} {t[1]}" for _, t in self._existing_rules.items()]
GetRulesOf(rules) ==
    [i \in DOMAIN rules |-> <<".">> \o rules[i].classname \o <<" ">> \o rules[i].contents]

\* ------------------------------------------------ the registry's operations
FontSize10 == <<<<"f", "o", "n", "t", "-", "s", "i", "z", "e">>, <<"1", "0", "p", "x">>>>
FontSize12 == <<<<"f", "o", "n", "t", "-", "s", "i", "z", "e">>, <<"1", "2", "p", "x">>>>

\* No worksheet is processed and no color resolved.
NoPass ==
    /\ sheet = AllYes
    /\ cfs = <<>>
    /\ fail_ok = TRUE
    /\ pc = "rule"
    /\ gi = 1
    /\ ri = 1
    /\ todo = <<>>
    /\ results = EmptyResults
    /\ returned = NotReturned
    /\ error = "none"
    /\ trace = <<>>
    /\ offs = NoOffs
    /\ memo = EmptyMemo
    /\ prev = NoPrev

\* classname = registry.register(items). The items: declarations out of
\* color: #111111, font-size: 10px and font-size: 12px, each given once, in
\* any order; the empty block too.
Register ==
    /\ Len(calls) < MaxCalls
    /\ \E items \in
          UNION {{q \in [1..n -> {<<<<"c", "o", "l", "o", "r">>,
                                     <<"#", "1", "1", "1", "1", "1", "1">>>>,
                                   FontSize10, FontSize12}] :
                     \A i, j \in 1..n : q[i] = q[j] => i = j} :
                  n \in 0..MaxItems} :
          /\ existing_rules' = Registered(prefix, existing_rules, SortedItems(items)).rules
          /\ calls' = Append(calls,
                [items |-> items,
                 classname |-> Registered(prefix, existing_rules,
                                          SortedItems(items)).classname])
    /\ UNCHANGED <<prefix, listed, passVars, offs, resolverVars, call, ret>>

\* rules = registry.get_rules()
GetRules ==
    /\ listed' = GetRulesOf(existing_rules)
    /\ UNCHANGED <<prefix, existing_rules, calls, passVars, offs, resolverVars, call, ret>>

\* CssRulesRegistry(prefix), with prefix "cf" or the default "xx2h": nothing
\* registered yet.
InitCss ==
    /\ prefix \in {<<"c", "f">>, <<"x", "x", "2", "h">>}
    /\ existing_rules = <<>>
    /\ calls = <<>>
    /\ listed = <<>>
    /\ NoPass
    /\ NoResolver
    /\ NoCall
NextRegistry == Register \/ GetRules
SpecRegistry == InitCss /\ [][NextRegistry]_vars

\* ---------------------------------------------------- claims on the registry
\* The declaration set of the items of a call.
ItemSet(items) == {items[i] : i \in DOMAIN items}
SetOfCall(i) == ItemSet(calls[i].items)
\* The declaration sets registered before call i, and whether call i brings
\* a new one.
SetsBefore(i) == {SetOfCall(j) : j \in 1..(i - 1)}
NewAt(i) == SetOfCall(i) \notin SetsBefore(i)
RegisteredSets == {SetOfCall(i) : i \in DOMAIN calls}
LastCall == calls'[Len(calls')]

C15_Step ==
    (/\ Len(calls') = Len(calls) + 1
     /\ \E j \in DOMAIN calls : SetOfCall(j) = ItemSet(LastCall.items))
    => existing_rules' = existing_rules

Hex4(n) ==
    <<HexDigits[((n \div 4096) % 16) + 1], HexDigits[((n \div 256) % 16) + 1],
      HexDigits[((n \div 16) % 16) + 1], HexDigits[(n % 16) + 1]>>
IndexedName(n) == prefix \o <<"_", "x">> \o Hex4(n)

MatchesARGB(str) ==
    /\ Len(str) \in {6, 8}
    /\ \A i \in DOMAIN str :
          str[i] \in {HexDigits[k] : k \in DOMAIN HexDigits}
                        \cup {"A", "B", "C", "D", "E", "F"}

Sentinel == <<"0", "0", "0", "0", "0", "0", "0", "0">>

\* theme_argbs_list as get_css_color sees it: a list with fewer than two
\* entries is replaced by ["FFFFFF", "000000"].
CreateThemedCssColorResolver(given) ==
    IF Len(given) < 2
    THEN <<<<"F", "F", "F", "F", "F", "F">>, <<"0", "0", "0", "0", "0", "0">>>>
    ELSE given

\* COLOR_INDEX[i], 0 <= i < 64: openpyxl's table of legacy colors, each of
\* eight hexadecimal digits. The model writes entry i as 000000 followed by
\* i in two hexadecimal digits.
ColorIndex(i) == <<"0", "0", "0", "0", "0", "0">> \o ZFill(Hex(i), 2)

\* What get_css_color gives: a str, None, or an exception.
Str(rgb) == [state |-> "str", rgb |-> rgb]
None == [state |-> "None", rgb |-> <<>>]

\* The branch color.type == "theme" (lines 48-62). rgb_to_hex(...) of a
\* tinted color gives six upper-case hexadecimal digits, which ones is not
\* modelled; argb_to_ms_hls raises on an entry that is no color.
ThemeColor(list, c) ==
    IF c.value >= 0 /\ c.value < Len(list)
    THEN IF c.tint = "0.0"
         THEN {Str(<<"0", "0">> \o list[c.value + 1])}
         ELSE IF MatchesARGB(list[c.value + 1])
              THEN {Str(<<"0", "0">> \o h) :
                       h \in {<<"A", "6", "C", "9", "E", "C">>,
                              <<"0", "0", "0", "0", "0", "0">>}}
              ELSE {[state |-> "raise", rgb |-> <<>>]}
    ELSE {Str(Sentinel)}

\* Variant of SystemColor: foreground and background are exchanged.
SystemColor_Swapped(list, indexed) == IF indexed = 64 THEN list[1] ELSE list[2]

\* The indices 64 and 65: theme_argbs_list[1] and theme_argbs_list[0].
SystemColor(list, indexed) == IF indexed = 64 THEN list[2] ELSE list[1]

\* The value of rgb before line 80, for color.type == "indexed".
IndexedLookup(list, indexed) ==
    IF indexed > 0
    THEN IF indexed < 64 THEN Str(ColorIndex(indexed))
         ELSE IF indexed = 64 \/ indexed = 65 THEN Str(SystemColor(list, indexed))
         ELSE None
    ELSE None

\* rgb = "00000000" if not rgb or not aRGB_REGEX.match(rgb) else rgb
ShapeChecked(r) ==
    IF r.state # "str" \/ r.rgb = <<>> \/ ~MatchesARGB(r.rgb) THEN Str(Sentinel) ELSE r

\* The argument None where a Color is expected.
NoneColor == [type |-> "NoneType", value |-> 0, tint |-> "0.0", rgb |-> <<>>]

\* get_css_color(color): the results it can give. For None the read of
\* color.type at line 48 raises AttributeError.
GetCssColor(list, c) ==
    IF c.type = "NoneType" THEN {[state |-> "raise", rgb |-> <<>>]}
    ELSE IF c.type = "theme" THEN ThemeColor(list, c)
    ELSE IF c.type = "rgb" THEN {Str(c.rgb)}
    ELSE IF c.type = "indexed" THEN {ShapeChecked(IndexedLookup(list, c.value))}
    ELSE {None}

\* ------------------------------------------------ the resolver's operations
Hex112233 == <<"1", "1", "2", "2", "3", "3">>
HexAABBCC == <<"A", "A", "B", "B", "C", "C">>

\* get_css_color = create_themed_css_color_resolver(given), and the color it
\* is about to be called with. The palettes given: too short, well-formed,
\* with an entry that is no color, with eight-digit entries, with an empty
\* entry. The colors: Color(theme=.., tint=..), Color(indexed=..),
\* Color(rgb=..), Color(auto=True) and None.
InitResolver ==
    /\ \E given \in {<<>>, <<Hex112233>>, <<Hex112233, HexAABBCC>>,
                      <<<<"Z", "Z", "Z", "Z", "Z", "Z">>, HexAABBCC>>,
                      <<Hex112233, <<"1", "2", "3", "4", "5">>>>,
                      <<<<"F", "F">> \o Hex112233, <<"0", "0">> \o HexAABBCC>>,
                      <<<<>>, HexAABBCC>>} :
          theme_argbs_list = CreateThemedCssColorResolver(given)
    /\ color \in
          {[type |-> "theme", value |-> v, tint |-> t, rgb |-> <<>>] :
              v \in (0 - 1)..2, t \in {"0.0", "0.5"}}
          \cup {[type |-> "indexed", value |-> i, tint |-> "0.0", rgb |-> <<>>] :
                  i \in (0 - 1)..67}
          \cup {[type |-> "rgb", value |-> 0, tint |-> "0.0",
                 rgb |-> <<"F", "F">> \o Hex112233],
                [type |-> "auto", value |-> 0, tint |-> "0.0", rgb |-> <<>>],
                NoneColor}
    /\ css_color = NotResolved

\* css_color = get_css_color(color)
ResolveColor ==
    /\ css_color = NotResolved
    /\ css_color' \in GetCssColor(theme_argbs_list, color)
    /\ UNCHANGED <<theme_argbs_list, color, passVars, offs, registryVars, call, ret>>

InitColors == InitResolver /\ NoPass /\ NoRegistry /\ NoCall
NextColors == ResolveColor
SpecColors == InitColors /\ [][NextColors]_vars

\* ---------------------------------------------------- claims on the resolver
\* C19 - Indexed colors: for a color of type indexed with index i the
\* resolver returns entry i of the fixed table of legacy colors when
\* 0 < i < 64, the palette's entry of index 1 when i = 64 and its entry of
\* index 0 when i = 65 (the sentinel 00000000 if that entry has not the shape
\* of a color), and the sentinel for every other index.
C19_IndexedColors ==
    (css_color # NotResolved /\ color.type = "indexed")
    => LET i == color.value
           entry(k) == IF MatchesARGB(theme_argbs_list[k]) THEN theme_argbs_list[k]
                       ELSE Sentinel
       IN  /\ (0 < i /\ i < 64) => css_color = Str(ColorIndex(i))
           /\ i = 64 => css_color = Str(entry(2))
           /\ i = 65 => css_color = Str(entry(1))
           /\ (i <= 0 \/ i > 65) => css_color = Str(Sentinel)

\* With the palette ["112233", "AABBCC"], indexed 64 gave "AABBCC".
C19_Witness ==
    /\ theme_argbs_list = <<Hex112233, HexAABBCC>>
    /\ color.type = "indexed"
    /\ color.value = 64
    /\ css_color = Str(HexAABBCC)

\* C20 - aRGB fallback: for every kind of color and every palette, the
\* resolver does not raise, and a string it returns has the shape of a color
\* (six or eight hexadecimal digits): a value of another shape is replaced by
\* 00000000.
C20_ARGBFallback ==
    css_color # NotResolved
    => /\ css_color.state # "raise"
       /\ css_color.state = "str" => MatchesARGB(css_color.rgb)

\* ------------------------------------------ claims on the order of the pass
\* C28 - Stopped set: once a rule with stopIfTrue set has matched a cell,
\* every rule processed later skips that cell: the pair is not evaluated (so
\* it neither matches nor raises, and a strict pass is not aborted by it)
\* and the cell keeps the winner it had.
C28_StoppedSet ==
    \A i, j \in DOMAIN trace :
        (/\ i < j
         /\ trace[i].cell = trace[j].cell
         /\ Matched(i)
         /\ RuleOf(trace[i]).stopIfTrue = "True")
        => /\ trace[j].out = "none"
           /\ ~(pc = "raised" /\ error = "eval" /\ j = Len(trace))

\* C29 - Processing order and tie-break: the pairs are visited in ascending
\* priority of their rules, rules of equal priority in the order of their
\* groups and then of their place in the group; and when two rules of equal
\* priority both matched a cell, the winner of a returned pass does not
\* carry the style id of the later-declared one.
C29_OrderAndTieBreak ==
    /\ \A i, j \in DOMAIN trace :
          i < j
          => \/ RuleOf(trace[i]).priority < RuleOf(trace[j]).priority
             \/ /\ RuleOf(trace[i]).priority = RuleOf(trace[j]).priority
                /\ \/ trace[i].g < trace[j].g
                   \/ trace[i].g = trace[j].g /\ trace[i].r <= trace[j].r
    /\ pc = "done"
       => \A i, j \in DOMAIN trace :
             (/\ i < j
              /\ trace[i].cell = trace[j].cell
              /\ Matched(i) /\ Matched(j)
              /\ RuleOf(trace[i]).priority = RuleOf(trace[j]).priority
              /\ RuleOf(trace[i]).dxfId # RuleOf(trace[j]).dxfId)
             => returned.v[trace[i].cell].dxfId # RuleOf(trace[j]).dxfId.v

\* The rules of the worksheet are expression rules with a style id that is
\* not negative.
ExpressionRulesOnly ==
    \A g \in DOMAIN cfs : \A r \in DOMAIN cfs[g].rules :
        cfs[g].rules[r].type = "expression" /\ UsableId(cfs[g].rules[r])

\* The pairs the specified algorithm counts as a match of cell c: the rule was
\* evaluated at c with every operand resolved and gave true.
ProperMatchesOn(c) ==
    {i \in MatchesOn(c) : trace[i].status = "apply" /\ trace[i].wrapped}

\* The winner the specified algorithm ends with on cell c: the
\* earliest-declared rule among the matching rules of least priority.
SpecifiedWinner(c) ==
    CHOOSE i \in ProperMatchesOn(c) :
        \A k \in ProperMatchesOn(c) :
            \/ RuleOf(trace[i]).priority < RuleOf(trace[k]).priority
            \/ /\ RuleOf(trace[i]).priority = RuleOf(trace[k]).priority
               /\ \/ trace[i].g < trace[k].g
                  \/ trace[i].g = trace[k].g /\ trace[i].r <= trace[k].r

\* C30 - Equivalence with the specified algorithm: a lenient pass over a
\* worksheet whose rules are expression rules with a non-negative style id
\* does not raise, and when it has returned, a cell has a winner if and only
\* if some rule matched it, and the winner is the earliest-declared rule
\* among the matching rules of least priority, with its stopIfTrue flag
\* (false when the flag is absent).
C30_EquivalentToSpecified ==
    (fail_ok /\ ExpressionRulesOnly)
    => /\ pc # "raised"
       /\ pc = "done"
          => /\ DOMAIN returned.v = {c \in VisitedCells : ProperMatchesOn(c) # {}}
             /\ \A c \in DOMAIN returned.v :
                   returned.v[c] = ProposedStyle(c, RuleOf(trace[SpecifiedWinner(c)]))

\* ========================================================================
\* ------------------------------------------------------------- CssBuilder
\* CssBuilder (css.py 57-203) and get_css_from_cell (css.py 294-498). A
\* function of the builder gives a list of (property, value) tuples, None or
\* an exception: [state |-> "list" | "None" | "raise", v |-> the list]. The
\* absent style, pattern type or color of a cell is written "None" or
\* NoneColor.

\* is_important_label = " !important" if is_important else ""
Label(is_important) ==
    IF is_important THEN <<" ", "!", "i", "m", "p", "o", "r", "t", "a", "n", "t">>
    ELSE <<>>

\* BORDER_STYLES.get(style), DEFAULT_BORDER_STYLE for a keyword that is not
\* in the table: the (property, value) pairs, the property without its
\* prefix border-{direction}-.
BorderStyles(style) ==
    CASE style \in {"dashDot", "dashDotDot", "dashed", "slantDashDot"} ->
            <<<<<<"s", "t", "y", "l", "e">>, <<"d", "a", "s", "h", "e", "d">>>>>>
      [] style = "dotted" -> <<<<<<"s", "t", "y", "l", "e">>,
                                 <<"d", "o", "t", "t", "e", "d">>>>>>
      [] style = "double" -> <<<<<<"s", "t", "y", "l", "e">>,
                                 <<"d", "o", "u", "b", "l", "e">>>>>>
      [] style \in {"medium", "mediumDashDot", "mediumDashDotDot"} ->
            <<<<<<"s", "t", "y", "l", "e">>, <<"s", "o", "l", "i", "d">>>>,
              <<<<"w", "i", "d", "t", "h">>, <<"2", "p", "x">>>>>>
      [] style = "mediumDashed" ->
            <<<<<<"s", "t", "y", "l", "e">>, <<"d", "a", "s", "h", "e", "d">>>>,
              <<<<"w", "i", "d", "t", "h">>, <<"2", "p", "x">>>>>>
      [] style = "thick" ->
            <<<<<<"s", "t", "y", "l", "e">>, <<"s", "o", "l", "i", "d">>>>,
              <<<<"w", "i", "d", "t", "h">>, <<"3", "p", "x">>>>>>
      [] style \in {"hair", "thin"} ->
            <<<<<<"s", "t", "y", "l", "e">>, <<"s", "o", "l", "i", "d">>>>,
              <<<<"w", "i", "d", "t", "h">>, <<"1", "p", "x">>>>>>
      [] OTHER ->
            <<<<<<"s", "t", "y", "l", "e">>, <<"s", "o", "l", "i", "d">>>>,
              <<<<"w", "i", "d", "t", "h">>, <<"1", "p", "x">>>>>>

\* CssBuilder.border(style, direction, color, is_important), clr the color
Border(get_css_color, style, direction, clr, is_important) ==
    IF style = "None" THEN [state |-> "None", v |-> <<>>]
    ELSE IF get_css_color[clr].state = "raise" THEN [state |-> "raise", v |-> <<>>]
    ELSE [state |-> "list",
          v |-> [i \in DOMAIN BorderStyles(style) |->
                    <<<<"b", "o", "r", "d", "e", "r", "-">> \o direction \o <<"-">>
                      \o BorderStyles(style)[i][1],
                      BorderStyles(style)[i][2] \o Label(is_important)>>]
                \o (IF get_css_color[clr].state = "str"
                    THEN <<<<<<"b", "o", "r", "d", "e", "r", "-">> \o direction
                             \o <<"-", "c", "o", "l", "o", "r">>,
                             get_css_color[clr].rgb \o Label(is_important)>>>>
                    ELSE <<>>)]

\* CssBuilder.font_color and CssBuilder.background_color: the declaration of
\* `property` with the resolved color, None when the resolver gives None.
ColorDeclaration(get_css_color, property, clr, is_important) ==
    IF get_css_color[clr].state = "raise" THEN [state |-> "raise", v |-> <<>>]
    ELSE IF get_css_color[clr].state = "None" THEN [state |-> "None", v |-> <<>>]
    ELSE [state |-> "list",
          v |-> <<<<property, get_css_color[clr].rgb \o Label(is_important)>>>>]

RECURSIVE Gather(_, _)
\* The list a function collects from the results of its calls, in their
\* order, after the list acc it has; an exception of one of them leaves the
\* function.
Gather(acc, parts) ==
    IF parts = <<>> \/ acc.state = "raise" THEN acc
    ELSE Gather(IF Head(parts).state = "raise" THEN [state |-> "raise", v |-> <<>>]
                ELSE [state |-> "list", v |-> acc.v \o Head(parts).v],
                Tail(parts))

\* get_border_styles_from_cell(cell, css_builder, is_important): the sides
\* of cell.border in the order right, left, top, bottom.
GetBorderStylesFromCell(get_css_color, cell, is_important) ==
    IF ~cell.border.some THEN [state |-> "list", v |-> <<>>]
    ELSE Gather([state |-> "list", v |-> <<>>], [k \in 1..4 |->
            IF ~cell.border.v[k].some THEN [state |-> "None", v |-> <<>>]
            ELSE Border(get_css_color, cell.border.v[k].v.style,
                        <<<<"r", "i", "g", "h", "t">>, <<"l", "e", "f", "t">>,
                          <<"t", "o", "p">>, <<"b", "o", "t", "t", "o", "m">>>>[k],
                        cell.border.v[k].v.color, is_important)])

\* primary_fill_color or secondary_fill_color (lines 430-439): fgColor,
\* bgColor when there is no fgColor.
FillColor(fill) ==
    IF fill.fgColor # NoneColor THEN fill.fgColor ELSE fill.bgColor

\* css_color of get_css_from_cell (lines 420-458), and whether the warning
\* of line 456 was logged.
FillStyles(get_css_color, cell, is_important) ==
    IF ~cell.fill.some \/ cell.fill.v.patternType = "None"
    THEN [state |-> "list", v |-> <<>>, warned |-> FALSE]
    ELSE IF cell.fill.v.patternType = "none"
    THEN [state |-> "list",
          v |-> <<<<<<"b", "a", "c", "k", "g", "r", "o", "u", "n", "d", "-",
                      "c", "o", "l", "o", "r">>,
                    <<"t", "r", "a", "n", "s", "p", "a", "r", "e", "n", "t">>
                        \o Label(is_important)>>>>,
          warned |-> FALSE]
    ELSE [state |-> Gather([state |-> "list", v |-> <<>>],
                           <<ColorDeclaration(get_css_color,
                               <<"b", "a", "c", "k", "g", "r", "o", "u", "n", "d", "-",
                                 "c", "o", "l", "o", "r">>,
                               FillColor(cell.fill.v), is_important)>>).state,
          v |-> Gather([state |-> "list", v |-> <<>>],
                       <<ColorDeclaration(get_css_color,
                           <<"b", "a", "c", "k", "g", "r", "o", "u", "n", "d", "-",
                             "c", "o", "l", "o", "r">>,
                           FillColor(cell.fill.v), is_important)>>).v,
          warned |-> /\ cell.fill.v.patternType # "solid"
                     /\ get_css_color[FillColor(cell.fill.v)].state # "raise"]

\* The four lists get_css_from_cell builds, in the order it registers them:
\* css_borders (of the cell and of the merged cells, lines 385-397),
\* css_contents (alignment, 402-415), css_color (420-458) and css_font
\* (463-493).
CssParts(get_css_color, cell, merged_cells, is_important) ==
    <<Gather(GetBorderStylesFromCell(get_css_color, cell, is_important),
             [k \in DOMAIN merged_cells |->
                    GetBorderStylesFromCell(get_css_color, merged_cells[k], is_important)]),
      IF ~cell.alignment.some THEN [state |-> "list", v |-> <<>>]
      ELSE [state |-> "list",
            v |-> (IF cell.alignment.v.horizontal.some
                   THEN <<<<<<"t", "e", "x", "t", "-", "a", "l", "i", "g", "n">>,
                            cell.alignment.v.horizontal.v \o Label(is_important)>>>>
                   ELSE <<>>)
                  \o (IF cell.alignment.v.vertical.some
                      THEN <<<<<<"v", "e", "r", "t", "i", "c", "a", "l", "-",
                                 "a", "l", "i", "g", "n">>,
                               cell.alignment.v.vertical.v \o Label(is_important)>>>>
                      ELSE <<>>)],
      FillStyles(get_css_color, cell, is_important),
      IF ~cell.font.some THEN [state |-> "list", v |-> <<>>]
      ELSE Gather([state |-> "list", v |-> <<>>],
            <<[state |-> "list",
               v |-> IF cell.font.v.sz > 0
                     THEN <<<<<<"f", "o", "n", "t", "-", "s", "i", "z", "e">>,
                              Decimal(cell.font.v.sz) \o <<"p", "x">> \o Label(is_important)>>>>
                     ELSE <<>>],
              IF cell.font.v.color = NoneColor THEN [state |-> "None", v |-> <<>>]
              ELSE ColorDeclaration(get_css_color, <<"c", "o", "l", "o", "r">>,
                                    cell.font.v.color,
                                    is_important),
              [state |-> "list",
               v |-> (IF cell.font.v.b
                      THEN <<<<<<"f", "o", "n", "t", "-", "w", "e", "i", "g", "h", "t">>,
                               <<"b", "o", "l", "d">> \o Label(is_important)>>>>
                      ELSE <<>>)
                     \o (IF cell.font.v.i
                         THEN <<<<<<"f", "o", "n", "t", "-", "s", "t", "y", "l", "e">>,
                                  <<"i", "t", "a", "l", "i", "c">> \o Label(is_important)>>>>
                         ELSE <<>>)
                     \o (IF cell.font.v.u
                         THEN <<<<<<"t", "e", "x", "t", "-",
                                    "d", "e", "c", "o", "r", "a", "t", "i", "o", "n">>,
                                  <<"u", "n", "d", "e", "r", "l", "i", "n", "e">>
                                      \o Label(is_important)>>>>
                         ELSE <<>>)]>>)>>

RECURSIVE RegisterParts(_, _, _)
\* cell_classes.update([css_registry.register(part)]) for each list that is
\* not empty (lines 399-400, 417-418, 460-461, 495-496), after the lists
\* that gave acc: the classes returned and the registry left. An exception
\* met while a list is built leaves get_css_from_cell with the lists before
\* it registered.
RegisterParts(pfx, acc, parts) ==
    IF parts = <<>> THEN acc
    ELSE IF Head(parts).state = "raise"
    THEN [state |-> "raise", classes |-> {}, rules |-> acc.rules]
    ELSE IF Head(parts).v = <<>> THEN RegisterParts(pfx, acc, Tail(parts))
    ELSE RegisterParts(pfx,
            [state |-> "set",
             classes |-> acc.classes
                 \cup {Registered(pfx, acc.rules, SortedItems(Head(parts).v)).classname},
             rules |-> Registered(pfx, acc.rules, SortedItems(Head(parts).v)).rules],
            Tail(parts))

\* The colors of the cells below: Color(rgb="FF112233"), Color(theme=0),
\* Color(auto=True) and None. None of them has a tint, so the resolver
\* gives one result for each.
CellColors ==
    {[type |-> "rgb", value |-> 0, tint |-> "0.0", rgb |-> <<"F", "F">> \o Hex112233],
     [type |-> "theme", value |-> 0, tint |-> "0.0", rgb |-> <<>>],
     [type |-> "auto", value |-> 0, tint |-> "0.0", rgb |-> <<>>],
     NoneColor}

\* ret = css_builder.border(style, direction, color, is_important), where
\* css_builder = CssBuilder(get_css_color) and get_css_color is the resolver
\* made from the palette.
CallBorder ==
    /\ call.fn = "border"
    /\ ret.state = "none"
    /\ \E get_css_color \in
          {[c \in CellColors |-> CHOOSE r \in GetCssColor(theme_argbs_list, c) : TRUE]} :
          ret' = Border(get_css_color, call.style, call.direction, call.color,
                        call.is_important)
    /\ UNCHANGED <<call, theme_argbs_list, color, css_color, registryVars, passVars, offs>>

\* ret = get_css_from_cell(cell, merged_cell_map, is_important)
CallGetCssFromCell ==
    /\ call.fn = "get_css_from_cell"
    /\ ret.state = "none"
    /\ \E parts \in
          {CssParts([c \in CellColors |->
                        CHOOSE r \in GetCssColor(theme_argbs_list, c) : TRUE],
                    call.cell, call.merged_cells, call.is_important)} :
          \E r \in {RegisterParts(prefix,
                        [state |-> "set", classes |-> {}, rules |-> existing_rules],
                        parts)} :
             /\ existing_rules' = r.rules
             /\ ret' = [state |-> r.state, classes |-> r.classes,
                        warned |-> parts[1].state # "raise" /\ parts[3].warned]
    /\ UNCHANGED <<call, prefix, calls, listed, resolverVars, passVars, offs>>

\* ------------------------------------------------- color.py and themes.py
RECURSIVE HexValue(_)
\* int(str, 16) of a string of hexadecimal digits
HexValue(str) ==
    IF str = <<>> THEN 0
    ELSE 16 * HexValue(SubSeq(str, 1, Len(str) - 1))
         + CHOOSE d \in 0..15 :
               str[Len(str)] \in {HexDigits[d + 1],
                                  <<"0", "1", "2", "3", "4", "5", "6", "7", "8", "9",
                                    "A", "B", "C", "D", "E", "F">>[d + 1]}

\* argb_to_css(argb), argb a str (argb.some) or another value
ArgbToCss(argb) ==
    IF ~argb.some THEN [state |-> "raise", exc |-> "TypeError"]
    ELSE IF ~MatchesARGB(argb.v) THEN [state |-> "raise", exc |-> "ValueError"]
    ELSE IF Len(argb.v) = 6 THEN [state |-> "str", v |-> <<"#">> \o argb.v]
    ELSE IF SubSeq(argb.v, 1, 2) = <<"0", "0">>
    THEN [state |-> "str", v |-> <<"#">> \o SubSeq(argb.v, 3, 8)]
    ELSE [state |-> "str",
          v |-> <<"r", "g", "b", "a", "(">> \o Decimal(HexValue(SubSeq(argb.v, 3, 4)))
                \o <<",", " ">> \o Decimal(HexValue(SubSeq(argb.v, 5, 6)))
                \o <<",", " ">> \o Decimal(HexValue(SubSeq(argb.v, 7, 8)))
                \o <<",", " ">> \o Decimal(HexValue(SubSeq(argb.v, 1, 2))) \o <<")">>]

\* HLSMAX = 240
HLSMAX == 240

\* round(n / 8): the nearest integer, of two equally near ones the even one.
Round(n) ==
    IF 2 * (n % 8) < 8 \/ (2 * (n % 8) = 8 /\ (n \div 8) % 2 = 0)
    THEN n \div 8
    ELSE (n \div 8) + 1

\* Variant of TintLuminance: every tint lightens.
TintLuminance_Lighten(tint, lum) ==
    IF ~tint.some THEN Round(8 * lum)
    ELSE Round(lum * (8 - tint.v) + (8 * HLSMAX - HLSMAX * (8 - tint.v)))

\* tint_luminance(tint, lum): tint is None or tint.v eighths, lum
\* an integer. The products and sums of the code are exact for such values.
TintLuminance(tint, lum) ==
    IF ~tint.some THEN Round(8 * lum)
    ELSE IF tint.v < 0 THEN Round(lum * (8 + tint.v))
    ELSE Round(lum * (8 - tint.v) + (8 * HLSMAX - HLSMAX * (8 - tint.v)))

RECURSIVE ThemeColors(_, _, _)
\* The body of the try of get_theme_colors (lines 29-77): the parse and the
\* two lookups for k = 0, then the loop over the color names from the k-th
\* on, theme.nodes[k] the node of the k-th name and colors the list so far.
\* It gives the list of colors or raises ThemeColorsError or, from
\* fromstring, another exception.
ThemeColors(theme, k, colors) ==
    IF k = 0
    THEN IF theme.loaded # "xml" THEN [state |-> "raise", exc |-> "Exception"]
         ELSE IF ~theme.themeElements \/ theme.clrSchemes = 0
         THEN [state |-> "raise", exc |-> "ThemeColorsError"]
         ELSE ThemeColors(theme, 1, colors)
    ELSE IF k > Len(theme.nodes) THEN [state |-> "list", v |-> colors]
    ELSE IF \/ ~theme.nodes[k].found
            \/ theme.nodes[k].values = 0
            \/ ~theme.nodes[k].val.some
            \/ /\ \E i \in 1..(Len(theme.nodes[k].val.v) - 5) :
                      SubSeq(theme.nodes[k].val.v, i, i + 5)
                          = <<"w", "i", "n", "d", "o", "w">>
               /\ ~theme.nodes[k].lastClr.some
    THEN [state |-> "raise", exc |-> "ThemeColorsError"]
    ELSE ThemeColors(theme, k + 1,
            Append(colors,
                   IF \E i \in 1..(Len(theme.nodes[k].val.v) - 5) :
                         SubSeq(theme.nodes[k].val.v, i, i + 5)
                             = <<"w", "i", "n", "d", "o", "w">>
                   THEN theme.nodes[k].lastClr.v
                   ELSE theme.nodes[k].val.v))

\* Variant of GetThemeColors: in strict mode the exception met is raised as
\* it is.
GetThemeColors_Reraise(theme, strict) ==
    IF ThemeColors(theme, 0, <<>>).state = "raise" /\ ~strict
    THEN [state |-> "list", v |-> <<>>]
    ELSE ThemeColors(theme, 0, <<>>)

\* get_theme_colors(wb, strict): the two except clauses (lines 78-87).
GetThemeColors(theme, strict) ==
    IF ThemeColors(theme, 0, <<>>).state = "raise"
    THEN IF strict THEN [state |-> "raise", exc |-> "ThemeColorsError"]
         ELSE [state |-> "list", v |-> <<>>]
    ELSE ThemeColors(theme, 0, <<>>)

\* ret = argb_to_css(argb)
CallArgbToCss ==
    /\ call.fn = "argb_to_css"
    /\ ret.state = "none"
    /\ ret' = ArgbToCss(call.argb)
    /\ UNCHANGED <<call, resolverVars, registryVars, passVars, offs>>

\* ret = tint_luminance(tint, lum)
CallTintLuminance ==
    /\ call.fn = "tint_luminance"
    /\ ret.state = "none"
    /\ ret' = [state |-> "int", v |-> TintLuminance(call.tint, call.lum)]
    /\ UNCHANGED <<call, resolverVars, registryVars, passVars, offs>>

\* ret = get_theme_colors(wb, strict)
CallGetThemeColors ==
    /\ call.fn = "get_theme_colors"
    /\ ret.state = "none"
    /\ ret' = GetThemeColors(call.theme, call.strict)
    /\ UNCHANGED <<call, resolverVars, registryVars, passVars, offs>>

\* None where a value like x may be, and the side of a border that is None.
NoneFor(x) == [some |-> FALSE, v |-> x]

\* A border whose left side is thin and has the color FF112233.
ThinLeft ==
    Some(<<NoneFor([style |-> "None", color |-> NoneColor]),
           Some([style |-> "thin",
                 color |-> [type |-> "rgb", value |-> 0, tint |-> "0.0",
                            rgb |-> <<"F", "F">> \o Hex112233]]),
           NoneFor([style |-> "None",
                    color |-> NoneColor]), NoneFor([style |-> "None", color |-> NoneColor])>>)

\* The largest tint tried, in eighths.
MaxTint == 8

\* ------------------------------------------------------------- the calls
\* One call of one of the functions. A call of CssBuilder.border or of
\* get_css_from_cell has a registry and a builder whose resolver was made
\* from a well-formed palette or from one with an empty entry. The cells: a
\* Cell or a DifferentialStyle (dxf), its border absent, with a thin left
\* side or with a double bottom side that has no color, its alignment absent
\* or centered, its fill absent or of a pattern type None, "solid", "none"
\* or "gray125" with every pair of colors, its font absent or 11pt bold in a
\* theme color; no merged cell or one with a border.
\* argb_to_css is called with strings that are colors, strings that are not
\* and None; tint_luminance with no tint or a tint in eighths and an integer
\* luminance; get_theme_colors with a workbook whose theme is not loaded,
\* is no XML, has no themeElements, no clrScheme, or one or two schemes in
\* which one of the twelve color nodes is missing, empty, without val, a
\* window color with lastClr or without it, or a color like the others.
InitCalls ==
    /\ NoPass
    /\ color = [type |-> "none", value |-> 0, tint |-> "0.0", rgb |-> <<>>]
    /\ css_color = NotResolved
    /\ ret = [state |-> "none"]
    /\ \/ /\ prefix = <<"x", "x", "2", "h">>
          /\ existing_rules = <<>>
          /\ calls = <<>>
          /\ listed = <<>>
          /\ \E given \in {<<Hex112233, HexAABBCC>>, <<<<>>, HexAABBCC>>} :
                theme_argbs_list = CreateThemedCssColorResolver(given)
          /\ \/ call \in
                   {[fn |-> "border", style |-> s, direction |-> d, color |-> c,
                     is_important |-> imp] :
                       s \in {"None", "dashDot", "dashDotDot", "dashed", "dotted",
                              "double", "hair", "medium", "mediumDashDot",
                              "mediumDashDotDot", "mediumDashed", "slantDashDot",
                              "thick", "thin", "wavy"},
                       d \in {<<"l", "e", "f", "t">>, <<"t", "o", "p">>},
                       c \in CellColors, imp \in BOOLEAN}
             \/ call \in
                   {[fn |-> "get_css_from_cell",
                     cell |-> [dxf |-> dxf, border |-> b, alignment |-> al,
                               fill |-> f, font |-> ft],
                     merged_cells |-> m, is_important |-> imp] :
                       dxf \in BOOLEAN,
                       b \in {NoneFor(<<>>), ThinLeft,
                              Some(<<NoneFor([style |-> "None", color |-> NoneColor]),
                                     NoneFor([style |-> "None", color |-> NoneColor]),
                                     Some([style |-> "None", color |-> NoneColor]),
                                     Some([style |-> "double", color |-> NoneColor])>>)},
                       al \in {NoneFor([horizontal |-> NoneFor(<<>>),
                                         vertical |-> NoneFor(<<>>)]),
                               Some([horizontal |-> Some(<<"c", "e", "n", "t", "e", "r">>),
                                     vertical |-> NoneFor(<<>>)])},
                       f \in {NoneFor([patternType |-> "None", fgColor |-> NoneColor,
                                       bgColor |-> NoneColor])}
                             \cup {Some([patternType |-> p, fgColor |-> fg,
                                         bgColor |-> bg]) :
                                     p \in {"None", "solid", "none", "gray125"},
                                     fg \in CellColors, bg \in CellColors},
                       ft \in {NoneFor([sz |-> 0, color |-> NoneColor, b |-> FALSE,
                                        i |-> FALSE, u |-> FALSE]),
                               Some([sz |-> 11,
                                     color |-> [type |-> "theme", value |-> 0,
                                                tint |-> "0.0", rgb |-> <<>>],
                                     b |-> TRUE, i |-> FALSE, u |-> FALSE])},
                       m \in {<<>>,
                              <<[dxf |-> FALSE, border |-> ThinLeft,
                                 alignment |-> NoneFor(0), fill |-> NoneFor(0),
                                 font |-> NoneFor(0)]>>},
                       imp \in BOOLEAN}
       \/ /\ NoRegistry
          /\ theme_argbs_list = <<>>
          /\ \/ call \in
                   {[fn |-> "argb_to_css", argb |-> a] :
                       a \in {NoneFor(<<>>),
                              Some(<<>>),
                              Some(<<"A", "A", "B", "B", "D", "D">>),
                              Some(<<"a", "a", "b", "b", "d", "d">>),
                              Some(<<"0", "0", "A", "A", "B", "B", "D", "D">>),
                              Some(<<"A", "A", "A", "A", "B", "B", "D", "D">>),
                              Some(<<"F", "F", "1", "1", "2", "2", "3", "3">>),
                              Some(<<"8", "0", "0", "0", "0", "0", "0", "0">>),
                              Some(<<"0", "1", "f", "f", "f", "e", "1", "0">>),
                              Some(<<"A", "A", "B", "B", "D">>),
                              Some(<<"0", "A", "A", "B", "B", "D", "D">>),
                              Some(<<"G", "G", "G", "G", "G", "G">>),
                              Some(<<"#", "A", "A", "B", "B", "D", "D">>)}}
             \/ call \in
                   {[fn |-> "tint_luminance", tint |-> t, lum |-> l] :
                       t \in {NoneFor(0)} \cup {Some(k) : k \in (0 - MaxTint)..MaxTint},
                       l \in 0..HLSMAX}
             \/ call \in
                   {[fn |-> "get_theme_colors", theme |-> th, strict |-> st] :
                       th \in {[loaded |-> l, themeElements |-> FALSE, clrSchemes |-> 0,
                                nodes |-> <<>>] : l \in {"None", "invalid", "xml"}}
                              \cup {[loaded |-> "xml", themeElements |-> TRUE,
                                     clrSchemes |-> 0, nodes |-> <<>>]}
                              \cup {[loaded |-> "xml", themeElements |-> TRUE,
                                     clrSchemes |-> n,
                                     nodes |-> [k \in 1..12 |->
                                        IF k = p THEN node
                                        ELSE [found |-> TRUE, values |-> 1,
                                              val |-> Some(ZFill(Decimal(k), 6)),
                                              lastClr |-> NoneFor(<<>>)]]] :
                                      n \in 1..2, p \in 1..12,
                                      node \in
                                        {[found |-> f, values |-> n2, val |-> v,
                                          lastClr |-> lc] :
                                            f \in BOOLEAN, n2 \in 0..1,
                                            v \in {NoneFor(<<>>),
                                                   Some(<<"w", "i", "n", "d", "o", "w">>),
                                                   Some(<<"w", "i", "n", "d", "o", "w",
                                                          "T", "e", "x", "t">>),
                                                   Some(Hex112233)},
                                            lc \in {NoneFor(<<>>), Some(HexAABBCC)}}},
                       st \in BOOLEAN}

NextCalls ==
    \/ CallBorder
    \/ CallGetCssFromCell
    \/ CallArgbToCss
    \/ CallTintLuminance
    \/ CallGetThemeColors
SpecCalls == InitCalls /\ [][NextCalls]_vars

\* ------------------------------------- claims on the builder and the colors
\* C21: CssBuilder.border called with a style and with no color (None)
\* returns the style and width declarations of the style and no border-color
\* declaration: the resolver gives None for no color, it does not raise.
C21_AbsentColor ==
    (/\ call.fn = "border"
     /\ ret.state # "none"
     /\ call.style # "None"
     /\ call.color = NoneColor)
    => /\ ret.state = "list"
       /\ Len(ret.v) = Len(BorderStyles(call.style))
       /\ \A i \in DOMAIN ret.v :
             ret.v[i][1] # <<"b", "o", "r", "d", "e", "r", "-">> \o call.direction
                               \o <<"-", "c", "o", "l", "o", "r">>

\* C23: CssBuilder.border maps the style keyword through the table: dashed,
\* dotted and double to the CSS style of the same name, medium to solid 2px,
\* the mediumDash* keywords to dashed 2px, thick to solid 3px, hair and thin
\* to solid 1px, a keyword that is not in the table to solid 1px; a null
\* style yields nothing at all (None).
C23_BorderTable ==
    (call.fn = "border" /\ ret.state \in {"list", "None"})
    => LET Has(suffix, value) ==
               \E i \in DOMAIN ret.v :
                  ret.v[i] = <<<<"b", "o", "r", "d", "e", "r", "-">> \o call.direction
                               \o <<"-">> \o suffix,
                               value \o Label(call.is_important)>>
       IN /\ (call.style = "None") <=> (ret.state = "None")
          /\ call.style = "dashed" => Has(<<"s", "t", "y", "l", "e">>,
                                          <<"d", "a", "s", "h", "e", "d">>)
          /\ call.style = "dotted" => Has(<<"s", "t", "y", "l", "e">>,
                                          <<"d", "o", "t", "t", "e", "d">>)
          /\ call.style = "double" => Has(<<"s", "t", "y", "l", "e">>,
                                          <<"d", "o", "u", "b", "l", "e">>)
          /\ call.style = "medium"
                => /\ Has(<<"s", "t", "y", "l", "e">>, <<"s", "o", "l", "i", "d">>)
                   /\ Has(<<"w", "i", "d", "t", "h">>, <<"2", "p", "x">>)
          /\ call.style \in {"mediumDashed", "mediumDashDot", "mediumDashDotDot"}
                => /\ Has(<<"s", "t", "y", "l", "e">>, <<"d", "a", "s", "h", "e", "d">>)
                   /\ Has(<<"w", "i", "d", "t", "h">>, <<"2", "p", "x">>)
          /\ call.style = "thick"
                => /\ Has(<<"s", "t", "y", "l", "e">>, <<"s", "o", "l", "i", "d">>)
                   /\ Has(<<"w", "i", "d", "t", "h">>, <<"3", "p", "x">>)
          /\ call.style \in {"hair", "thin", "wavy"}
                => /\ Has(<<"s", "t", "y", "l", "e">>, <<"s", "o", "l", "i", "d">>)
                   /\ Has(<<"w", "i", "d", "t", "h">>, <<"1", "p", "x">>)


\* C22: argb_to_css gives '#RRGGBB' for a string of six hexadecimal digits,
\* '#RRGGBB' of the last six digits for one of eight digits that starts with
\* 00, and for any other string of eight digits 'rgba(r, g, b, a)' with the
\* decimal values of the color bytes and a the alpha byte as a fraction of
\* 255 with three decimals (0.667 for AA), never as an integer.
C22_CssLiteral ==
    (call.fn = "argb_to_css" /\ ret.state # "none" /\ call.argb.some
     /\ MatchesARGB(call.argb.v))
    => /\ ret.state = "str"
       /\ Len(call.argb.v) = 6 => ret.v = <<"#">> \o call.argb.v
       /\ (Len(call.argb.v) = 8 /\ SubSeq(call.argb.v, 1, 2) = <<"0", "0">>)
             => ret.v = <<"#">> \o SubSeq(call.argb.v, 3, 8)
       /\ (Len(call.argb.v) = 8 /\ SubSeq(call.argb.v, 1, 2) # <<"0", "0">>)
             => LET alpha == HexValue(SubSeq(call.argb.v, 1, 2))
                    thousandths == (alpha * 2000 + 255) \div 510
                IN ret.v = <<"r", "g", "b", "a", "(">>
                      \o Decimal(HexValue(SubSeq(call.argb.v, 3, 4))) \o <<",", " ">>
                      \o Decimal(HexValue(SubSeq(call.argb.v, 5, 6))) \o <<",", " ">>
                      \o Decimal(HexValue(SubSeq(call.argb.v, 7, 8))) \o <<",", " ">>
                      \o Decimal(thousandths \div 1000) \o <<".">>
                      \o ZFill(Decimal(thousandths % 1000), 3) \o <<")">>


\* C24: get_css_from_cell called on a cell whose fill has a color: with the
\* pattern "solid" it registers background-color with the foreground color,
\* with the background color when there is no foreground color (nothing for
\* a color the resolver has no value for); with the pattern "none" it
\* registers background-color: transparent; with any other pattern that is
\* not null it registers the same color as for "solid" and logs a warning;
\* in every case at most one background-color declaration is registered.
C24_FillMapping ==
    (call.fn = "get_css_from_cell" /\ ret.state # "none" /\ call.cell.fill.some)
    => LET fill == call.cell.fill.v
           property == <<"b", "a", "c", "k", "g", "r", "o", "u", "n", "d", "-",
                         "c", "o", "l", "o", "r">>
           Emitted(value) ==
               \E i \in DOMAIN existing_rules :
                  existing_rules[i].contents
                      = CssRuleContents(<<<<property, value \o Label(call.is_important)>>>>)
           flat == CHOOSE r \in GetCssColor(theme_argbs_list,
                                   IF fill.fgColor # NoneColor THEN fill.fgColor
                                   ELSE fill.bgColor) : TRUE
       IN /\ Cardinality({i \in DOMAIN existing_rules :
                             property \in DOMAIN existing_rules[i].source}) <= 1
          /\ fill.patternType = "none"
                => /\ Emitted(<<"t", "r", "a", "n", "s", "p", "a", "r", "e", "n", "t">>)
                   /\ ~ret.warned
          /\ (fill.patternType \notin {"None", "none"} /\ flat.state = "str")
                => /\ Emitted(flat.rgb)
                   /\ ret.warned <=> fill.patternType # "solid"

\* C25: get_css_from_cell called on a differential style whose fill has a
\* background color (bgColor) registers background-color with that color,
\* also when the fill has no pattern type.
C25_DifferentialFill ==
    (/\ call.fn = "get_css_from_cell"
     /\ ret.state # "none"
     /\ call.cell.dxf
     /\ call.cell.fill.some
     /\ call.cell.fill.v.bgColor.type = "rgb")
    => \E i \in DOMAIN existing_rules :
          existing_rules[i].contents
              = CssRuleContents(<<<<<<"b", "a", "c", "k", "g", "r", "o", "u", "n", "d", "-",
                                      "c", "o", "l", "o", "r">>,
                                    call.cell.fill.v.bgColor.rgb
                                        \o Label(call.is_important)>>>>)


C27_ThemeErrors ==
    (/\ call.fn = "get_theme_colors"
     /\ ret.state # "none"
     /\ \/ call.theme.loaded # "xml"
        \/ ~call.theme.themeElements
        \/ call.theme.clrSchemes = 0
        \/ \E k \in DOMAIN call.theme.nodes :
              \/ ~call.theme.nodes[k].found
              \/ call.theme.nodes[k].values = 0
              \/ ~call.theme.nodes[k].val.some
              \/ /\ SubSeq(call.theme.nodes[k].val.v, 1, 6) = <<"w", "i", "n", "d", "o", "w">>
                 /\ ~call.theme.nodes[k].lastClr.some)
    => IF call.strict
       THEN ret.state = "raise" /\ ret.exc = "ThemeColorsError"
       ELSE ret.state = "list" /\ ret.v = <<>>

\* A workbook without a loaded theme was read in strict mode: the exception
\* of the parser was replaced.
C27_Witness ==
    /\ call.fn = "get_theme_colors"
    /\ call.strict
    /\ call.theme.loaded = "None"
    /\ ret.state = "raise"
    /\ ret.exc = "ThemeColorsError"

====
